---------------------------- MODULE Spec2Model ----------------------------
(***************************************************************************)
(* Model of the aggregation core of src/analytics/aggregation.py:          *)
(* DataAggregator.aggregate, DataAggregator.multi_level_pipeline and the   *)
(* registry of aggregation functions, with the metric factories of         *)
(* src/analytics/metrics/__init__.py and run_from_config of                *)
(* src/analytics/__init__.py; and of its neighbours in src/analytics:      *)
(* AddinRegistry.discover_from_manifests (addin_registry.py), the          *)
(* ExperimentTracker (experiment_tracker.py) and                           *)
(* AnalyticsAPI.run_from_config (api.py).                                  *)
(*                                                                         *)
(* A table (pandas DataFrame) is a record                                  *)
(*    [cols : sequence of column names, numeric : set of the columns of a  *)
(*     numeric dtype, rows : sequence of functions column -> value].       *)
(* A value is a record [k, s, n, d]: a number n/d (k = "num"), the square  *)
(* root of n/d (k = "sqrt"), a string s (k = "str") or null (k = "null",   *)
(* pandas NaN / None).                                                     *)
(***************************************************************************)
EXTENDS Integers, Sequences, FiniteSets, TLC

\* ------------------------------------------------------------------ bounds
\* the largest number of rows of an input table of aggregate
MaxRows == 2
\* the largest number of stages of a pipeline configuration
MaxStages == 3
\* the largest number of files in a scanned manifest directory
MaxFiles == 2

\* ------------------------------------------------------------------ values
Abs(x) == IF x < 0 THEN -x ELSE x

RECURSIVE GCD(_, _)
GCD(a, b) == IF b = 0 THEN a ELSE GCD(b, a % b)

\* the number n/d in lowest terms (d > 0)
Rat(n, d) ==
    LET g == GCD(Abs(n), d)
    IN  [k |-> "num", s |-> "", n |-> n \div g, d |-> d \div g]

Num(n) == [k |-> "num", s |-> "", n |-> n, d |-> 1]
Str(s) == [k |-> "str", s |-> s, n |-> 0, d |-> 1]
Null == [k |-> "null", s |-> "", n |-> 0, d |-> 1]

\* the square root of the non-negative number v (kept symbolic unless v = 0)
Sqrt(v) == IF v.n = 0 THEN Num(0) ELSE [k |-> "sqrt", s |-> "", n |-> v.n, d |-> v.d]

IsNull(v) == v.k = "null"

RAdd(a, b) == Rat(a.n * b.d + b.n * a.d, a.d * b.d)
RSub(a, b) == Rat(a.n * b.d - b.n * a.d, a.d * b.d)
RMul(a, b) == Rat(a.n * b.n, a.d * b.d)
\* a / m for an integer m > 0
RDivInt(a, m) == Rat(a.n, a.d * m)
RLess(a, b) == a.n * b.d < b.n * a.d

\* the order in which pandas sorts the strings used as key values
StrRank(s) == CASE s = "a" -> 1 [] s = "b" -> 2 [] s = "p" -> 3 [] s = "q" -> 4 [] OTHER -> 5

\* v sorts strictly before w (values of one column: all numbers or all strings)
ValLess(v, w) ==
    IF v.k = "str" /\ w.k = "str" THEN StrRank(v.s) < StrRank(w.s)
    ELSE IF v.k = "num" /\ w.k = "num" THEN RLess(v, w)
    ELSE StrRank(v.k) < StrRank(w.k)

\* ------------------------------------------------------------------ tables
Range(s) == {s[i] : i \in 1..Len(s)}

EmptyFrame(cols) == [cols |-> cols, numeric |-> {}, rows |-> <<>>]

\* DataFrame.empty: some axis has length 0
IsEmpty(t) == Len(t.rows) = 0 \/ Len(t.cols) = 0

\* the values of column c, in row order
Column(rows, c) == [i \in 1..Len(rows) |-> rows[i][c]]

\* the non-null values of a sequence of values, in order
DropNull(xs) == SelectSeq(xs, LAMBDA v : ~IsNull(v))


\* ------------------------------------------------- reductions of a column
RECURSIVE SumSeq(_)
SumSeq(xs) == IF xs = <<>> THEN Num(0) ELSE RAdd(xs[1], SumSeq(Tail(xs)))

\* the values of xs in ascending order
RECURSIVE SortVals(_)
SortVals(xs) ==
    IF xs = <<>> THEN <<>>
    ELSE LET i == CHOOSE j \in 1..Len(xs) : \A l \in 1..Len(xs) : ~RLess(xs[l], xs[j])
         IN  <<xs[i]>> \o SortVals(SubSeq(xs, 1, i - 1) \o SubSeq(xs, i + 1, Len(xs)))

\* the sum of the squared deviations of ys from their mean
SumSqDev(ys) ==
    LET m == RDivInt(SumSeq(ys), Len(ys))
    IN  SumSeq([i \in 1..Len(ys) |-> RMul(RSub(ys[i], m), RSub(ys[i], m))])

\* the variance of the non-null values of xs with the given ddof; null (NaN)
\* when fewer than ddof + 1 values are left
Variance(xs, ddof) ==
    LET ys == DropNull(xs)
    IN  IF Len(ys) <= ddof THEN Null ELSE RDivInt(SumSqDev(ys), Len(ys) - ddof)

\* the standard deviation that goes with the variance v
StdOf(v) == IF IsNull(v) THEN Null ELSE Sqrt(v)

\* the middle of the sorted non-null values srt
MedianOf(srt, n) ==
    IF n % 2 = 1 THEN srt[(n + 1) \div 2]
    ELSE RDivInt(RAdd(srt[n \div 2], srt[n \div 2 + 1]), 2)

\* a reduction of the non-null values ys, srt being ys sorted and var1 their
\* variance with ddof = 1
ReduceValues(name, ys, srt, var1) ==
    CASE name = "sum" -> SumSeq(ys)
      [] name = "var" -> var1
      [] name = "std" -> StdOf(var1)
      [] ys = <<>> -> Null
      [] name = "mean" -> RDivInt(SumSeq(ys), Len(ys))
      [] name = "min" -> srt[1]
      [] name = "max" -> srt[Len(ys)]
      [] name = "median" -> MedianOf(srt, Len(ys))
      [] OTHER -> Null

\* pandas' reductions by name (mean, median, std, min, max, sum, var of a
\* Series or of a group's column): nulls are skipped, std and var have ddof = 1
PandasAgg(name, xs) == ReduceValues(name, DropNull(xs), SortVals(DropNull(xs)), Variance(xs, 1))

\* ------------------------------------------------------ functions, callables
\* A function object is a record [f, col]: f names the function, col is the
\* column a BasicMetrics factory was given ("" otherwise).
Fn(f) == [f |-> f, col |-> ""]
FnCol(f, c) == [f |-> f, col |-> c]

\* the outcome of calling a function: a value, or an exception
Returned(v) == [ok |-> TRUE, v |-> v, err |-> ""]
Raised(e) == [ok |-> FALSE, v |-> Null, err |-> e]

\* the exception of the first outcome that is one, "" when none is
FirstError(outs) ==
    IF \A i \in 1..Len(outs) : outs[i].ok THEN ""
    ELSE outs[CHOOSE i \in 1..Len(outs) : ~outs[i].ok /\ \A j \in 1..(i - 1) : outs[j].ok].err

\* DataAggregator.__init__: the built-in entries of aggregation_functions
BuiltinFunctions ==
    [name \in {"mean", "median", "std", "min", "max", "count", "sum", "var", "sem"} |->
        CASE name = "mean" -> Fn("np.mean")
          [] name = "median" -> Fn("np.median")
          [] name = "std" -> Fn("np.std")
          [] name = "min" -> Fn("np.min")
          [] name = "max" -> Fn("np.max")
          [] name = "count" -> Fn("len")
          [] name = "sum" -> Fn("np.sum")
          [] name = "var" -> Fn("np.var")
          [] name = "sem" -> Fn("sem_lambda")]

\* the names aggregate hands to pandas as strings
PandasNames == {"mean", "median", "std", "min", "max", "sum", "var"}

\* np.percentile(x, 75) (linear interpolation; NaN when x holds a null)
Percentile75(xs) ==
    LET srt == SortVals(xs)
        n == Len(xs)
        lo == (3 * (n - 1)) \div 4
        frac == Rat(3 * (n - 1) - 4 * lo, 4)
    IN  IF n = 0 \/ \E i \in 1..n : IsNull(xs[i]) THEN Null
        ELSE IF lo + 2 > n THEN srt[lo + 1]
        ELSE RAdd(srt[lo + 1], RMul(frac, RSub(srt[lo + 2], srt[lo + 1])))

\* lambda x: np.std(x, ddof=1) / np.sqrt(len(x)) if len(x) > 1 else np.nan,
\* var1 being the variance of x with ddof = 1
SemOf(xs, var1) ==
    IF Len(xs) > 1 /\ ~IsNull(var1) THEN Sqrt(RDivInt(var1, Len(xs))) ELSE Null

\* the pandas reduction a numpy function dispatches to when given a Series
\* (np.std and np.var pass ddof = 0 and are handled apart)
NumpyDispatch(f) ==
    CASE f = "np.mean" -> "mean" [] f = "np.median" -> "median" [] f = "np.min" -> "min"
      [] f = "np.max" -> "max" [] f = "np.sum" -> "sum" [] OTHER -> "none"

\* the standard error divides by zero on a group of fewer than two rows
SeriesResultSemUnguarded(func, xs, var0, var1) ==
    CASE func.f = "sem_lambda" ->
            IF Len(xs) > 1 THEN Returned(SemOf(xs, var1)) ELSE Raised("ZeroDivisionError")
      [] func.f \in {"len", "count_func"} -> Returned(Num(Len(xs)))
      [] func.f = "percentile_75" -> Returned(Percentile75(xs))
      [] func.f = "np.var" -> Returned(var0)
      [] func.f = "np.std" -> Returned(StdOf(var0))
      [] NumpyDispatch(func.f) # "none" -> Returned(PandasAgg(NumpyDispatch(func.f), xs))
      [] OTHER -> Raised("TypeError")

\* the function func called with a pandas Series xs (one column of one group,
\* or one row), var0 and var1 being the variances of xs with ddof 0 and 1
SeriesResult(func, xs, var0, var1) ==
    CASE func.f = "sem_lambda" -> Returned(SemOf(xs, var1))
      [] func.f \in {"len", "count_func"} -> Returned(Num(Len(xs)))
      [] func.f \in {"mean_func", "sum_func", "min_func", "max_func"} ->
            \* df.columns: a Series has no attribute 'columns'
            Raised("AttributeError")
      [] func.f = "percentile_75" -> Returned(Percentile75(xs))
      [] func.f = "np.var" -> Returned(var0)
      [] func.f = "np.std" -> Returned(StdOf(var0))
      [] NumpyDispatch(func.f) # "none" -> Returned(PandasAgg(NumpyDispatch(func.f), xs))
      [] OTHER -> Raised("TypeError")

\* the function func called with a pandas Series xs, as SeriesGroupBy.agg(func)
\* calls it with the value column of a group (nulls included)
CallOnSeries(func, xs) == SeriesResult(func, xs, Variance(xs, 0), Variance(xs, 1))

\* the reduction a BasicMetrics factory's function applies to its column
FactoryReduction(f) ==
    CASE f = "mean_func" -> "mean" [] f = "sum_func" -> "sum" [] f = "min_func" -> "min"
      [] OTHER -> "max"

\* the function func called with a sub-table (DataFrame) sub: the metric
\* functions the BasicMetrics factories return; the mean of a column of
\* strings raises
CallOnTable(func, sub) ==
    CASE func.f \in {"count_func", "len"} -> Returned(Num(Len(sub.rows)))
      [] func.f \in {"mean_func", "sum_func", "min_func", "max_func"} ->
            IF func.col \notin Range(sub.cols) THEN Returned(Null)
            ELSE IF func.f = "mean_func" /\ func.col \notin sub.numeric
            THEN Raised("TypeError")
            ELSE Returned(PandasAgg(FactoryReduction(func.f), Column(sub.rows, func.col)))
      [] OTHER -> Raised("TypeError")

\* ------------------------------------------------------------------ groupby
\* the key of a row: its values in the group_by columns, in group_by order
KeyOf(row, group_by) == [i \in 1..Len(group_by) |-> row[group_by[i]]]

HasNullKey(row, group_by) == \E i \in 1..Len(group_by) : IsNull(row[group_by[i]])

\* key k1 sorts strictly before key k2 (lexicographic)
KeyLess(k1, k2) ==
    \E i \in 1..Len(k1) :
        /\ \A j \in 1..(i - 1) : k1[j] = k2[j]
        /\ ValLess(k1[i], k2[i])

RECURSIVE SortKeys(_)
SortKeys(S) ==
    IF S = {} THEN <<>>
    ELSE LET m == CHOOSE k \in S : \A o \in S : o = k \/ KeyLess(k, o)
         IN  <<m>> \o SortKeys(S \ {m})

\* data.groupby(group_by) with pandas' defaults (sort=True, dropna=True): the
\* keys of the groups in sorted order; a row with a null in a key column
\* belongs to no group
GroupKeys(data, group_by) ==
    SortKeys({KeyOf(data.rows[i], group_by) :
                 i \in {j \in 1..Len(data.rows) : ~HasNullKey(data.rows[j], group_by)}})

\* the rows of the group with the given key, in row order
GroupRows(data, group_by, key) ==
    SelectSeq(data.rows, LAMBDA r : KeyOf(r, group_by) = key)

\* the group's sub-table is the whole table
GroupTableWhole(data, group_by, key) == data

\* the sub-table of a group
GroupTable(data, group_by, key) ==
    [cols |-> data.cols, numeric |-> data.numeric, rows |-> GroupRows(data, group_by, key)]

\* the position of column c in the sequence cols
IndexOf(cols, c) == CHOOSE i \in 1..Len(cols) : cols[i] = c

\* grouped.first().reset_index()[group_by].copy(): one row per group holding
\* the key columns
KeyFrame(data, group_by) ==
    LET keys == GroupKeys(data, group_by)
    IN  [cols |-> group_by,
         numeric |-> data.numeric \cap Range(group_by),
         rows |-> [i \in 1..Len(keys) |->
                      [c \in Range(group_by) |-> keys[i][IndexOf(group_by, c)]]]]

\* the number of non-null values of each group's value column (0 without one)
GroupSizesNonNull(data, group_by) ==
    LET keys == GroupKeys(data, group_by)
    IN  [i \in 1..Len(keys) |->
            IF data.numeric = {} THEN Num(0)
            ELSE Num(Len(DropNull(Column(GroupRows(data, group_by, keys[i]),
                                         SelectSeq(data.cols, LAMBDA c : c \in data.numeric)[1]))))]

\* grouped.size().values: the number of rows of each group, in group order
GroupSizes(data, group_by) ==
    LET keys == GroupKeys(data, group_by)
    IN  [i \in 1..Len(keys) |-> Num(Len(GroupRows(data, group_by, keys[i])))]

\* a column of these values gets a numeric dtype
IsNumericColumn(vals) == \A i \in 1..Len(vals) : vals[i].k \in {"num", "sqrt", "null"}

\* result[col] = vals: col is overwritten when result has it, appended otherwise
SetColumn(result, col, vals) ==
    [cols |-> IF col \in Range(result.cols) THEN result.cols ELSE Append(result.cols, col),
     numeric |-> IF IsNumericColumn(vals) THEN result.numeric \cup {col}
                 ELSE result.numeric \ {col},
     rows |-> [i \in 1..Len(result.rows) |->
                  [c \in Range(result.cols) \cup {col} |->
                      IF c = col THEN vals[i] ELSE result.rows[i][c]]]]

\* data.select_dtypes(include=np.number).columns, in column order
NumericCols(data) == SelectSeq(data.cols, LAMBDA c : c \in data.numeric)

\* the first numeric column, whether or not 'score' is numeric
AggColFirstNumeric(data) == NumericCols(data)[1]

\* the last numeric column
AggColLastNumeric(data) ==
    IF NumericCols(data) = <<>> THEN "" ELSE NumericCols(data)[Len(NumericCols(data))]

\* the value column of the reductions: 'score' if numeric, else the first
\* numeric column
AggCol(data) ==
    IF "score" \in Range(NumericCols(data)) THEN "score" ELSE NumericCols(data)[1]

\* ---------------------------------------------------------------- aggregate
\* the outcome of a call that returns a table: the table, or an exception
Ok(t) == [ok |-> TRUE, table |-> t, err |-> ""]
Err(e) == [ok |-> FALSE, table |-> EmptyFrame(<<>>), err |-> e]

ErrColumn == "ValueError: Group-by column not found in data"
ErrUnknown == "ValueError: Unknown aggregation function"
ErrNoNumeric == "ValueError: No numeric columns found for aggregation"
ErrNoKeys == "ValueError: No group keys passed!"

\* A metrics mapping is a sequence (the dict's insertion order) of records
\* [out, kind, fn]: out is the output column, kind is "name" (fn.f is the
\* string) or "callable" (fn is the function object).
MetricKeys(metrics) == [i \in 1..Len(metrics) |-> metrics[i].out]

\* a metric requested by name, and one given as a callable
Named(o, name) == [out |-> o, kind |-> "name", fn |-> Fn(name)]
Callable(o, fn) == [out |-> o, kind |-> "callable", fn |-> fn]

\* an unregistered name falls back to the mean (aggregation_functions.get(name, np.mean))
LookupFunctionDefault(reg, m) ==
    IF m.kind # "name" THEN [found |-> TRUE, fn |-> m.fn]
    ELSE IF m.fn.f \in DOMAIN reg THEN [found |-> TRUE, fn |-> reg[m.fn.f]]
    ELSE [found |-> TRUE, fn |-> reg["mean"]]

\* lines 60-65 (and 135-141 of the pipeline): the function of metric m, a
\* registered name or the caller's callable; found is FALSE for a string that
\* is not a key of aggregation_functions
LookupFunction(reg, m) ==
    IF m.kind # "name" THEN [found |-> TRUE, fn |-> m.fn]
    ELSE IF m.fn.f \in DOMAIN reg THEN [found |-> TRUE, fn |-> reg[m.fn.f]]
    ELSE [found |-> FALSE, fn |-> Fn("")]

\* the values of one reduction metric, one outcome per group in group order
\* (lines 84-87): pandas' own reduction for the names of the fixed list, the
\* function called with the group's value column otherwise
ReduceGroups(data, group_by, m, func, keys) ==
    [i \in 1..Len(keys) |->
        IF m.kind = "name" /\ m.fn.f \in PandasNames
        THEN Returned(PandasAgg(m.fn.f, Column(GroupRows(data, group_by, keys[i]), AggCol(data))))
        ELSE CallOnSeries(func, Column(GroupRows(data, group_by, keys[i]), AggCol(data)))]

\* the loop over metrics.items() (lines 58-87), from the i-th metric on
RECURSIVE ApplyMetrics(_, _, _, _, _, _)

\* lines 85/87: the metric's column is set from the groups' values, unless the
\* function raised for a group
AfterReduce(reg, data, group_by, metrics, i, result, outs) ==
    IF FirstError(outs) # "" THEN Err(FirstError(outs))
    ELSE ApplyMetrics(reg, data, group_by, metrics, i + 1,
                      SetColumn(result, metrics[i].out, [j \in 1..Len(outs) |-> outs[j].v]))

\* one pass of the loop (lines 59-87), look being the looked-up function
MetricStep(reg, data, group_by, metrics, i, result, look) ==
    IF ~look.found THEN Err(ErrUnknown)
    ELSE IF look.fn.f = "len"
    THEN ApplyMetrics(reg, data, group_by, metrics, i + 1,
                      SetColumn(result, metrics[i].out, GroupSizes(data, group_by)))
    ELSE IF NumericCols(data) = <<>> THEN Err(ErrNoNumeric)
    ELSE AfterReduce(reg, data, group_by, metrics, i, result,
                     ReduceGroups(data, group_by, metrics[i], look.fn,
                                  GroupKeys(data, group_by)))

ApplyMetrics(reg, data, group_by, metrics, i, result) ==
    IF i > Len(metrics) THEN Ok(result)
    ELSE MetricStep(reg, data, group_by, metrics, i, result, LookupFunction(reg, metrics[i]))

\* the group_by columns are validated before the table is looked at
AggregateValidateFirst(reg, data, group_by, metrics) ==
    IF \E i \in 1..Len(group_by) : group_by[i] \notin Range(data.cols) THEN Err(ErrColumn)
    ELSE IF IsEmpty(data) THEN Ok(EmptyFrame(group_by \o MetricKeys(metrics)))
    ELSE IF group_by = <<>> THEN Err(ErrNoKeys)
    ELSE ApplyMetrics(reg, data, group_by, metrics, 1, KeyFrame(data, group_by))

\* the metric names are validated before the group_by columns
AggregateNamesFirst(reg, data, group_by, metrics) ==
    IF IsEmpty(data) THEN Ok(EmptyFrame(group_by \o MetricKeys(metrics)))
    ELSE IF \E i \in 1..Len(metrics) : ~LookupFunction(reg, metrics[i]).found THEN Err(ErrUnknown)
    ELSE IF \E i \in 1..Len(group_by) : group_by[i] \notin Range(data.cols) THEN Err(ErrColumn)
    ELSE IF group_by = <<>> THEN Err(ErrNoKeys)
    ELSE ApplyMetrics(reg, data, group_by, metrics, 1, KeyFrame(data, group_by))

\* DataAggregator.aggregate(data, group_by, metrics) on an aggregator whose
\* aggregation_functions is reg
Aggregate(reg, data, group_by, metrics) ==
    IF IsEmpty(data) THEN Ok(EmptyFrame(group_by \o MetricKeys(metrics)))
    ELSE IF \E i \in 1..Len(group_by) : group_by[i] \notin Range(data.cols) THEN Err(ErrColumn)
    ELSE IF group_by = <<>> THEN Err(ErrNoKeys)
    ELSE ApplyMetrics(reg, data, group_by, metrics, 1, KeyFrame(data, group_by))

\* ------------------------------------------------- row functions, DataFrame.apply
\* the values of a row as a Series, in column order
RowValues(row, cols) == [i \in 1..Len(cols) |-> row[cols[i]]]

\* the function func called with one row (a Series indexed by the columns), as
\* DataFrame.apply(func, axis=1) calls it. A predicate returns 1 for True and
\* 0 for False.
CallOnRow(func, row, cols) ==
    CASE func.f = "high_enough" -> Returned(Num(1))
      [] func.f \in {"is_high_score", "score_gt_1"} ->
            \* row["score"] > 1
            IF "score" \notin Range(cols) THEN Raised("KeyError")
            ELSE IF row["score"].k = "str" THEN Raised("TypeError")
            ELSE IF row["score"].k = "num" /\ RLess(Num(1), row["score"]) THEN Returned(Num(1))
            ELSE Returned(Num(0))
      [] func.f = "len" -> Returned(Num(Len(cols)))
      [] func.f = "int_score" ->
            \* lambda row: int(row["score"]): int(nan) raises
            IF "score" \notin Range(cols) THEN Raised("KeyError")
            ELSE IF row["score"].k = "num" THEN Returned(row["score"])
            ELSE Raised("ValueError")
      [] OTHER ->
            IF \E i \in 1..Len(cols) : row[cols[i]].k = "str" THEN Raised("TypeError")
            ELSE CallOnSeries(func, RowValues(row, cols))

\* the row of nulls DataFrame.apply tries the function on when the table has
\* no rows (apply_empty_result)
TrialRow(cols) == [c \in Range(cols) |-> Null]

\* DataFrame.apply(func, axis=1) on a table with rows: one outcome per row
ApplyRows(t, func) == [i \in 1..Len(t.rows) |-> CallOnRow(func, t.rows[i], t.cols)]

\* the mask is ignored: every row is kept
MaskRowsKeepAll(t, outs) == t

\* the rows of t at which the mask holds True
MaskRows(t, outs) ==
    [t EXCEPT !.rows = [i \in 1..Cardinality({j \in 1..Len(outs) : outs[j].v = Num(1)}) |->
        t.rows[CHOOSE j \in 1..Len(outs) :
                  /\ outs[j].v = Num(1)
                  /\ Cardinality({l \in 1..j : outs[l].v = Num(1)}) = i]]]

\* the filter of a table with rows, outs being the predicate's outcomes
FilterByOutcomes(t, outs) ==
    IF FirstError(outs) # "" THEN Err(FirstError(outs)) ELSE Ok(MaskRows(t, outs))

\* the filter of a table without rows: the predicate is only tried on a row of
\* nulls (apply_empty_result); when that call returns, apply gives an empty
\* Series, which selects no columns; when it raises, apply gives a copy of the
\* table, which keeps all of it
FilterEmpty(t, trial) == IF trial.ok THEN Ok(EmptyFrame(<<>>)) ELSE Ok(t)

\* stage_data[stage_data.apply(filter_func, axis=1)] (line 118): the outcome
\* is the filtered table or the exception the predicate raised
FilterRows(t, func) ==
    IF IsEmpty(t) THEN FilterEmpty(t, CallOnRow(func, TrialRow(t.cols), t.cols))
    ELSE FilterByOutcomes(t, ApplyRows(t, func))

\* a row on which the function raised gets a null and the call goes on
SetByOutcomesSkipFailed(t, col, outs) ==
    Ok(SetColumn(t, col, [i \in 1..Len(outs) |-> outs[i].v]))

\* the new column of a table with rows, outs being the function's outcomes
SetByOutcomes(t, col, outs) ==
    IF FirstError(outs) # "" THEN Err(FirstError(outs))
    ELSE Ok(SetColumn(t, col, [i \in 1..Len(outs) |-> outs[i].v]))

\* the new column of a table without rows: when the trial call raises, apply
\* gives a copy of the table and a DataFrame is assigned to the column, which
\* pandas accepts only from a DataFrame of one column
SetOnEmpty(t, col, trial) ==
    IF trial.ok \/ Len(t.cols) = 1 THEN Ok(SetColumn(t, col, <<>>)) ELSE Err("ValueError")

\* stage_data[col_name] = stage_data.apply(func, axis=1) (line 142)
SetRowMetric(t, col, func) ==
    IF IsEmpty(t) THEN SetOnEmpty(t, col, CallOnRow(func, TrialRow(t.cols), t.cols))
    ELSE SetByOutcomes(t, col, ApplyRows(t, func))

\* a metric whose name is not registered is skipped
RowMetricStepSkipUnknown(reg, t, m) ==
    IF ~LookupFunction(reg, m).found THEN Ok(t)
    ELSE SetRowMetric(t, m.out, LookupFunction(reg, m).fn)

\* one pass of the per-row metrics loop of a stage (lines 134-142): the
\* outcome of adding the column of metric m to table t
RowMetricStep(reg, t, m) ==
    IF ~LookupFunction(reg, m).found THEN Err("ValueError: Unknown function")
    ELSE SetRowMetric(t, m.out, LookupFunction(reg, m).fn)

\* the loop goes on after a pass that returned, and stops at the exception of
\* one that raised, leaving the table as the earlier passes made it
RECURSIVE RowMetrics(_, _, _, _)
AfterStep(reg, t, metrics, i, step) ==
    IF step.ok THEN RowMetrics(reg, step.table, metrics, i + 1)
    ELSE [ok |-> FALSE, table |-> t, err |-> step.err]

\* the per-row metrics loop of a stage (lines 134-142) from the i-th metric on.
\* The columns are added to the table in place, so the table as it is when an
\* exception is raised is part of the outcome.
RowMetrics(reg, t, metrics, i) ==
    IF i > Len(metrics) THEN Ok(t)
    ELSE AfterStep(reg, t, metrics, i, RowMetricStep(reg, t, metrics[i]))

\* the caller's transform functions (table -> table)
CallTransform(func, t) ==
    CASE func = "assign_centered" ->
            \* lambda df: df.assign(score_centered=df["score"] - df["score"].mean())
            IF "score" \notin Range(t.cols) THEN Err("KeyError")
            ELSE LET mean == PandasAgg("mean", Column(t.rows, "score"))
                 IN  Ok(SetColumn(t, "score_centered",
                          [i \in 1..Len(t.rows) |->
                              IF IsNull(mean) \/ IsNull(t.rows[i]["score"]) THEN Null
                              ELSE RSub(t.rows[i]["score"], mean)]))
      [] func = "add_flag_inplace" ->
            \* def f(df): df["flag"] = 1; return df
            Ok(SetColumn(t, "flag", [i \in 1..Len(t.rows) |-> Num(1)]))
      [] OTHER -> Err("TypeError")

\* a transform that changes its argument in place and returns it
InPlaceTransforms == {"add_flag_inplace"}

\* ------------------------------------------------------------ run_from_config
\* A value of the configuration: a string or a list of strings (items holds
\* the string, or the list's elements).
StrVal(x) == [str |-> TRUE, items |-> <<x>>]
ListVal(l) == [str |-> FALSE, items |-> l]

ConfigKeys == {"input_csv", "output_csv", "group_by", "metrics"}

\* required keys in reverse order
RequiredKeysReversed == <<"group_by", "output_csv", "input_csv">>

\* line 45
RequiredKeys == <<"input_csv", "output_csv", "group_by">>

\* lines 46-49: the first required key that is not in c, "" when all are
FirstMissingKey(c) ==
    IF \A i \in 1..Len(RequiredKeys) : RequiredKeys[i] \in DOMAIN c THEN ""
    ELSE RequiredKeys[CHOOSE i \in 1..Len(RequiredKeys) :
                         /\ RequiredKeys[i] \notin DOMAIN c
                         /\ \A j \in 1..(i - 1) : RequiredKeys[j] \in DOMAIN c]

\* the dicts run_from_config returns
Failure(msg, key) ==
    [success |-> FALSE, error |-> msg, key |-> key, artifacts |-> <<>>, rows |-> 0]
Success(artifacts, rows) ==
    [success |-> TRUE, error |-> "", key |-> "", artifacts |-> artifacts, rows |-> rows]

\* c.strip().lower() of the column names of the modelled tables
ColLower(c) == IF c = "Rating" THEN "rating" ELSE c

\* detect_rating_columns: the columns ending in "_rating" (but not in
\* "not_a_rating") or equal to "rating", case-insensitively, in column order
DetectRatingColumns(df) ==
    SelectSeq(df.cols,
              LAMBDA c : \/ /\ ColLower(c) \in {"judge_rating", "content_rating", "not_a_rating"}
                            /\ ColLower(c) # "not_a_rating"
                         \/ ColLower(c) = "rating")

\* f"avg_{col}" for the rating columns of the modelled tables
AvgName(col) == IF col = "judge_rating" THEN "avg_judge_rating" ELSE "avg_Rating"

\* lines 72-73: the metrics for the detected rating columns, then the count
AutoMetrics(rating_cols) ==
    [i \in 1..Len(rating_cols) |->
        Callable(AvgName(rating_cols[i]), FnCol("mean_func", rating_cols[i]))]
    \o <<Callable("count", Fn("count_func"))>>

\* metrics[key] = value on a dict kept as a sequence in insertion order
PutMetric(ms, m) ==
    IF \E i \in 1..Len(ms) : ms[i].out = m.out
    THEN [ms EXCEPT ![CHOOSE i \in 1..Len(ms) : ms[i].out = m.out] = m]
    ELSE Append(ms, m)

\* metric.startswith("avg_") and metric[4:] for the modelled metric names
StartsWithAvg(metric) == metric \in {"avg_judge_rating", "avg_rating", "avg_len", "avg_model"}
AfterAvg(metric) ==
    CASE metric = "avg_judge_rating" -> "judge_rating"
      [] metric = "avg_rating" -> "rating"
      [] metric = "avg_model" -> "model"
      [] OTHER -> "len"

\* lines 76-87: the metrics list converted to a metrics dict, from the i-th
\* entry on; an entry that is neither "count" nor "avg_..." is ignored
RECURSIVE ConvertMetrics(_, _, _)
ConvertMetrics(metrics_list, i, ms) ==
    IF i > Len(metrics_list) THEN ms
    ELSE ConvertMetrics(metrics_list, i + 1,
            IF metrics_list[i] = "count" THEN PutMetric(ms, Callable("count", Fn("count_func")))
            ELSE IF StartsWithAvg(metrics_list[i])
            THEN PutMetric(ms, Callable(metrics_list[i],
                                        FnCol("mean_func", AfterAvg(metrics_list[i]))))
            ELSE ms)

\* lines 89-91: the count is always included
WithCount(ms) ==
    IF "count" \in Range(MetricKeys(ms)) THEN ms
    ELSE Append(ms, Callable("count", Fn("count_func")))

\* lines 111-129: the fallback aggregation, one row per group holding the key
\* values and each metric function's value on the group's sub-table (None when
\* the function raises)
FallbackRow(data, group_by, metrics, key, cols) ==
    [c \in Range(cols) |->
        IF c \in Range(MetricKeys(metrics))
        THEN LET m == metrics[CHOOSE i \in 1..Len(metrics) : metrics[i].out = c]
                 r == CallOnTable(m.fn, GroupTable(data, group_by, key))
             IN  IF r.ok THEN r.v ELSE Null
        ELSE key[IndexOf(group_by, c)]]

FallbackFrame(data, group_by, metrics, keys, cols) ==
    IF keys = <<>> THEN EmptyFrame(<<>>)
    ELSE [cols |-> cols,
          numeric |-> Range(MetricKeys(metrics)) \cup (data.numeric \cap Range(group_by)),
          rows |-> [i \in 1..Len(keys) |-> FallbackRow(data, group_by, metrics, keys[i], cols)]]

FallbackAggregation(data, group_by, metrics) ==
    IF \E i \in 1..Len(group_by) : group_by[i] \notin Range(data.cols) THEN Err("KeyError")
    ELSE IF group_by = <<>> THEN Err(ErrNoKeys)
    ELSE Ok(FallbackFrame(data, group_by, metrics, GroupKeys(data, group_by),
                          group_by \o SelectSeq(MetricKeys(metrics),
                                                LAMBDA c : c \notin Range(group_by))))

\* no fallback: the outcome of aggregate
RunAggregationNoFallback(data, group_by, metrics, first) == first

\* lines 100-129: a new aggregator's aggregate, the fallback when it raises
RunAggregation(data, group_by, metrics, first) ==
    IF first.ok THEN first ELSE FallbackAggregation(data, group_by, metrics)

\* rows reports the number of rows of the input
ReportedRowsOfInput(df, data) == Len(data.rows)

\* line 138: "rows": len(result_df)
ReportedRows(df, data) == Len(df.rows)

\* ------------------------------------------------- add-in manifest discovery
\* A manifest file of the scanned directory: the extension of its name, what
\* its content is (complete: every required field, of the required type), and
\* the name and the entry point (its dotted components) a complete one gives.
Manifest(ext, content, name, entry_point) ==
    [ext |-> ext, content |-> content, name |-> name, entry_point |-> entry_point]

\* validate_manifest: yaml.safe_load raises on content that cannot be parsed
\* and returns None for empty content, on which "field not in manifest" raises
\* TypeError; absent fields and fields of a wrong type are reported as
\* ManifestValidationError
validate_manifest(m) ==
    CASE m.content = "unparseable" -> Raised("YAMLError")
      [] m.content = "empty" -> Raised("TypeError")
      [] m.content \in {"missing_fields", "mistyped_fields"} ->
            Raised("ManifestValidationError")
      [] OTHER -> Returned(m)

\* entry_point.rsplit('.', 1): the part before the last dot and the part after
\* it, or the whole string alone when it has no dot
RSplit(entry_point) ==
    IF Len(entry_point) <= 1 THEN <<entry_point>>
    ELSE <<SubSeq(entry_point, 1, Len(entry_point) - 1), <<entry_point[Len(entry_point)]>>>>

\* the modules importlib can import, and the attributes of each
Modules == {<<"dummy_module">>}
ModuleAttrs == {"ValidAddin", "NotAnAddin"}

\* the classes that inherit from AnalyticsAddinBase
AddinClasses == {"ValidAddin"}

\* AddinRegistry.register on the registry reg
RegisterAddin(reg, name, addin_cls) ==
    IF addin_cls \notin AddinClasses THEN Raised("TypeError")
    ELSE Returned([n \in DOMAIN reg \cup {name} |-> IF n = name THEN addin_cls ELSE reg[n]])

\* lines 31-36: the body of the try statement for one manifest, its value the
\* registry afterwards
LoadAddin(reg, m) ==
    LET manifest == validate_manifest(m)
        parts == RSplit(m.entry_point)
    IN  IF ~manifest.ok THEN manifest
        ELSE IF Len(parts) # 2 THEN Raised("ValueError")
        ELSE IF parts[1] \notin Modules THEN Raised("ImportError")
        ELSE IF parts[2][1] \notin ModuleAttrs THEN Raised("AttributeError")
        ELSE RegisterAddin(reg, m.name, parts[2][1])

\* line 37: the exceptions the scan catches
CaughtInScan == {"ManifestValidationError", "ImportError", "AttributeError", "TypeError"}

\* -------------------------------------------------------- ExperimentTracker
\* The Python values given to save_results: None, strings, numbers (a float
\* is kept in hundredths), lists and dicts with string keys (the items in
\* insertion order).
PyNone == [t |-> "NoneType"]
PyStr(s) == [t |-> "str", s |-> s]
PyFloat(n) == [t |-> "float", n |-> n]
PyList(items) == [t |-> "list", items |-> items]
PyDict(items) == [t |-> "dict", items |-> items]

\* the JSON documents of the files
JNull == [j |-> "null"]
JString(s) == [j |-> "string", s |-> s]
JNumber(n) == [j |-> "number", n |-> n]
JArray(elements) == [j |-> "array", elements |-> elements]
JObject(members) == [j |-> "object", members |-> members]

\* json.dump: the document written for a value
RECURSIVE JsonDump(_)
JsonDump(v) ==
    CASE v.t = "NoneType" -> JNull
      [] v.t = "str" -> JString(v.s)
      [] v.t = "float" -> JNumber(v.n)
      [] v.t = "list" -> JArray([i \in 1..Len(v.items) |-> JsonDump(v.items[i])])
      [] OTHER -> JObject([i \in 1..Len(v.items) |->
                              <<v.items[i][1], JsonDump(v.items[i][2])>>])

\* json.load: the value read from a document
RECURSIVE JsonLoad(_)
JsonLoad(d) ==
    CASE d.j = "null" -> PyNone
      [] d.j = "string" -> PyStr(d.s)
      [] d.j = "number" -> PyFloat(d.n)
      [] d.j = "array" -> PyList([i \in 1..Len(d.elements) |-> JsonLoad(d.elements[i])])
      [] OTHER -> PyDict([i \in 1..Len(d.members) |->
                             <<d.members[i][1], JsonLoad(d.members[i][2])>>])

\* the tags are stored as given
TagsAsGiven(tags) == tags

\* line 20, "tags or []": None and the empty list are falsy
TagsOrEmpty(tags) == IF tags = PyNone \/ tags = PyList(<<>>) THEN PyList(<<>>) ELSE tags

\* d.get(key, default) on a dict value
DictGet(d, key, default) ==
    IF \E i \in 1..Len(d.items) : d.items[i][1] = key
    THEN d.items[CHOOSE i \in 1..Len(d.items) : d.items[i][1] = key][2]
    ELSE default

\* f"{fingerprint}.json", the name of the file under storage_path; names are
\* kept as the sequence of their parts, a fingerprint being a hex digest
FilePath(fingerprint) == fingerprint \o <<".json">>

\* save_results: the files afterwards
save_results(store, fingerprint, results, tags) ==
    [f \in DOMAIN store \cup {FilePath(fingerprint)} |->
        IF f = FilePath(fingerprint)
        THEN JsonDump(PyDict(<< <<"results", results>>, <<"tags", TagsOrEmpty(tags)>> >>))
        ELSE store[f]]

\* load_results
load_results(store, fingerprint) ==
    IF FilePath(fingerprint) \notin DOMAIN store THEN Raised("FileNotFoundError")
    ELSE Returned(JsonLoad(store[FilePath(fingerprint)]))

\* f.endswith(".json")
EndsWithJson(f) == f # <<>> /\ f[Len(f)] = ".json"

\* the whole file name
WholeName(f) == f

\* f.split(".json")[0]: what stands before the first ".json" of the name
SplitJsonFirst(f) ==
    IF \A i \in 1..Len(f) : f[i] # ".json" THEN f
    ELSE SubSeq(f, 1, (CHOOSE i \in 1..Len(f) :
                          f[i] = ".json" /\ \A j \in 1..(i - 1) : f[j] # ".json") - 1)

\* list_experiments, listing being what os.listdir returns
list_experiments(listing) ==
    LET js == SelectSeq(listing, EndsWithJson)
    IN  [i \in 1..Len(js) |-> SplitJsonFirst(js[i])]

\* filter_experiments
filter_experiments(store, listing, tag) ==
    LET HasTag(f) == /\ EndsWithJson(f)
                     /\ tag \in Range(DictGet(JsonLoad(store[f]), "tags", PyList(<<>>)).items)
        hits == SelectSeq(listing, HasTag)
    IN  [i \in 1..Len(hits) |-> SplitJsonFirst(hits[i])]

\* ------------------------------------------------------------- AnalyticsAPI
\* validate_config: the first required key that is absent raises ValueError
ApiRequiredKeys == <<"input_csv", "output_csv", "group_col">>

validate_config(c) ==
    IF \A i \in 1..Len(ApiRequiredKeys) : ApiRequiredKeys[i] \in DOMAIN c THEN Returned(Null)
    ELSE Raised("ValueError")

\* the metric classes registered with MetricRegistry (metrics/aggregate_metrics.py)
MetricClasses ==
    <<"VarianceExplainedMetric", "EffectSizeAggregateMetric", "ReliabilityMetric">>

\* MetricRegistry.get_metrics; metric_names is <<>> for None
get_metrics(given, metric_names) ==
    IF ~given THEN MetricClasses
    ELSE SelectSeq(metric_names, LAMBDA n : n \in Range(MetricClasses))

\* the parameters of DataAggregator.aggregate after self
AggregateParams == <<"data", "group_by", "metrics">>

\* The binding of a call's arguments to a function's parameters: TypeError
\* when there are too many positional arguments, when a keyword names no
\* parameter or one a positional argument already fills, or when a parameter
\* is left without a value.
BindArguments(params, positional, keywords) ==
    IF \/ Len(positional) > Len(params)
       \/ \E k \in DOMAIN keywords : k \notin Range(params)
       \/ \E i \in 1..Len(positional) : i <= Len(params) /\ params[i] \in DOMAIN keywords
       \/ \E i \in (Len(positional) + 1)..Len(params) : params[i] \notin DOMAIN keywords
    THEN Raised("TypeError")
    ELSE Returned([p \in Range(params) |->
                      IF p \in DOMAIN keywords THEN keywords[p]
                      ELSE positional[IndexOf(params, p)]])

\* line 13: aggregator.aggregate(data, metrics, group_by=cfg["group_col"]) on
\* a new aggregator
ApiAggregate(df, metrics, group_col) ==
    LET b == BindArguments(AggregateParams, <<df, metrics>>, [group_by |-> group_col])
    IN  IF ~b.ok THEN Err(b.err)
        ELSE Aggregate(BuiltinFunctions, b.v["data"], b.v["group_by"], b.v["metrics"])

\* --------------------------------------------------------- two aggregators
\* line 26: self.aggregation_functions[name] = func
SetEntry(reg, name, func) ==
    [n \in DOMAIN reg \cup {name} |-> IF n = name THEN func ELSE reg[n]]

\* one mapping shared by the instances
RegisterOnShared(first, other, inst, name, func) ==
    [first |-> SetEntry(first, name, func), other |-> SetEntry(other, name, func)]

\* register_aggregation_function called on the first or on the other of two
\* DataAggregator instances: __init__ gives each instance a mapping of its own
RegisterOn(first, other, inst, name, func) ==
    IF inst = 1 THEN [first |-> SetEntry(first, name, func), other |-> other]
    ELSE [first |-> first, other |-> SetEntry(other, name, func)]

\* ------------------------------------------------------------------- state
VARIABLES
    pc,                     \* where the modelled caller is
    aggregation_functions,  \* DataAggregator.aggregation_functions: name -> function
    call,                   \* the arguments of the aggregate call: [data, group_by, metrics]
    out,                    \* the outcome of the aggregate call
    heap,                   \* the DataFrame objects of a pipeline call: object id -> table
    data,                   \* multi_level_pipeline's argument data (an object id)
    pipeline_config,        \* multi_level_pipeline's argument pipeline_config
    stage_no,               \* the position of the loop over pipeline_config
    current_data,           \* the local current_data (an object id)
    stage_data,             \* the local stage_data (an object id)
    results,                \* the local results: stage name -> object id
    input_before,           \* history: the caller's table as it was at the call
    started,                \* history: the table each stage started from (line 113)
    recorded,               \* history: the table each stage stored (line 145)
    cfg,                    \* run_from_config's argument cfg: key -> value
    files,                  \* what load_csv and write_dataframe will do in this run
    run_data,               \* run_from_config's local data
    run_metrics,            \* run_from_config's local metrics
    result_df,              \* run_from_config's local result_df
    loads,                  \* history: the paths load_csv was called with
    writes,                 \* history: the (table, path) calls of write_dataframe
    ret,                    \* the value run_from_config returned
    manifest_dir,           \* discover_from_manifests' argument: the files of the directory
    registry,               \* AddinRegistry._registry: add-in name -> class
    scan_no,                \* the position of the loop over the directory listing
    storage,                \* the files under ExperimentTracker.storage_path: name -> content
    saved,                  \* history: the last save_results call of each fingerprint
    tracker_ret,            \* the last ExperimentTracker call and its outcome
    other_functions,        \* aggregation_functions of a second DataAggregator
    exception               \* the exception a call let through to its caller

aggVars == <<call, out>>
pipeVars == <<heap, data, pipeline_config, stage_no, current_data, stage_data, results,
              input_before, started, recorded>>
runVars == <<cfg, files, run_data, run_metrics, result_df, loads, writes, ret>>
addinVars == <<manifest_dir, registry, scan_no>>
trackVars == <<storage, saved, tracker_ret>>
extVars == <<addinVars, trackVars, other_functions, exception>>
vars == <<pc, aggregation_functions, aggVars, pipeVars, runVars, extVars>>

\* ------------------------------------------------------------------ inputs
\* every sequence of at most n elements of S
SeqsUpTo(S, n) == UNION {[1..k -> S] : k \in 0..n}

KeyVals == {Str("a"), Str("b"), Null}

\* columns model (string), len and score (numeric)
RowsScore ==
    {[c \in {"model", "len", "score"} |->
         CASE c = "model" -> m [] c = "len" -> l [] OTHER -> sc] :
       m \in KeyVals, l \in {Num(1), Num(2)}, sc \in {Num(1), Num(3), Null}}

\* columns model, prompt (strings) and len (numeric): no 'score'
RowsLen ==
    {[c \in {"model", "prompt", "len"} |->
         CASE c = "model" -> m [] c = "prompt" -> p [] OTHER -> l] :
       m \in KeyVals, p \in {Str("p"), Null}, l \in {Num(1), Num(2)}}

\* columns model and prompt (strings): no numeric column
RowsKeys ==
    {[c \in {"model", "prompt"} |-> IF c = "model" THEN m ELSE p] :
       m \in KeyVals, p \in {Str("p"), Str("q")}}

\* the input tables of aggregate: at most MaxRows rows
AggTables ==
    {[cols |-> <<"model", "len", "score">>, numeric |-> {"len", "score"}, rows |-> r] :
        r \in SeqsUpTo(RowsScore, MaxRows)}
    \cup {[cols |-> <<"model", "prompt", "len">>, numeric |-> {"len"}, rows |-> r] :
        r \in SeqsUpTo(RowsLen, MaxRows)}
    \cup {[cols |-> <<"model", "prompt">>, numeric |-> {}, rows |-> r] :
        r \in SeqsUpTo(RowsKeys, MaxRows)}

GroupBys ==
    {<<"model">>, <<"model", "prompt">>, <<"len">>, <<"nonexistent_column">>,
     <<"model", "nonexistent_column">>, <<>>}

MetricSets ==
    { <<>>,
      <<Named("count", "count")>>,
      <<Named("avg_score", "mean"), Named("count", "count")>>,
      <<Named("lo", "min"), Named("hi", "max")>>,
      <<Named("model", "count")>>,
      <<Named("len", "sum")>>,
      <<Named("total", "sum")>>,
      <<Named("med", "median"), Named("sd", "std"), Named("v", "var"), Named("se", "sem")>>,
      <<Named("invalid_metric", "nonexistent_function")>>,
      <<Named("count", "count"), Named("invalid_metric", "nonexistent_function")>>,
      <<Named("p75_score", "p75")>>,
      <<Named("avg_score", "mean"), Named("high_score_freq", "mean")>>,
      <<Callable("count", Fn("count_func"))>>,
      <<Callable("total_len", FnCol("sum_func", "len"))>>,
      <<Callable("n", Fn("len")), Callable("avg_len", FnCol("mean_func", "len"))>> }

\* the functions a caller registers: under a new name, and over a built-in one
Registrations == {<<"p75", Fn("percentile_75")>>, <<"mean", Fn("percentile_75")>>}

\* -------------------------------------------------- the aggregator's caller
NoCall == [data |-> EmptyFrame(<<>>), group_by |-> <<>>, metrics |-> <<>>]

EmptyMap == [n \in {} |-> 0]

\* before a run: nothing to load, nothing returned
NoFiles == [load_raises |-> FALSE, table |-> EmptyFrame(<<>>), write_raises |-> FALSE]
\* before any ExperimentTracker call
NoTrackerCall == [op |-> ""]

NoResult == [success |-> FALSE, error |-> "", key |-> "", artifacts |-> <<>>, rows |-> 0]

Init ==
    /\ pc = "new"
    /\ aggregation_functions = BuiltinFunctions
    /\ call = NoCall
    /\ out = Err("")
    /\ heap = <<>>
    /\ data = 0
    /\ pipeline_config = <<>>
    /\ stage_no = 0
    /\ current_data = 0
    /\ stage_data = 0
    /\ results = EmptyMap
    /\ input_before = EmptyFrame(<<>>)
    /\ started = <<>>
    /\ recorded = <<>>
    /\ cfg = EmptyMap
    /\ files = NoFiles
    /\ run_data = EmptyFrame(<<>>)
    /\ run_metrics = <<>>
    /\ result_df = EmptyFrame(<<>>)
    /\ loads = <<>>
    /\ writes = <<>>
    /\ ret = NoResult
    /\ manifest_dir = <<>>
    /\ registry = EmptyMap
    /\ scan_no = 0
    /\ storage = EmptyMap
    /\ saved = EmptyMap
    /\ tracker_ret = NoTrackerCall
    /\ other_functions = EmptyMap
    /\ exception = ""

\* register_aggregation_function(name, func)
RegisterFunction(name, func) ==
    [n \in DOMAIN aggregation_functions \cup {name} |->
        IF n = name THEN func ELSE aggregation_functions[n]]

Register ==
    /\ pc = "new"
    /\ \E r \in Registrations :
          /\ IF r[1] \in DOMAIN aggregation_functions
                THEN aggregation_functions[r[1]] # r[2] ELSE TRUE
          /\ aggregation_functions' = RegisterFunction(r[1], r[2])
    /\ UNCHANGED <<extVars, pc, aggVars, pipeVars, runVars>>

\* one call aggregate(data, group_by, metrics)
CallAggregate ==
    /\ pc = "new"
    /\ \E d \in AggTables, g \in GroupBys, m \in MetricSets :
          /\ call' = [data |-> d, group_by |-> g, metrics |-> m]
          /\ out' = Aggregate(aggregation_functions, d, g, m)
          /\ pc' = IF out'.ok THEN "returned" ELSE "raised"
    /\ UNCHANGED <<extVars, aggregation_functions, pipeVars, runVars>>

NextAgg == Register \/ CallAggregate

SpecAgg == Init /\ [][NextAgg]_vars

\* ------------------------------------------------------ multi_level_pipeline
\* A stage is a record [name, filter, transform, group_by, metrics,
\* output_to_next]; an absent filter or transform is "none", an absent
\* group_by or metrics is <<>> (absent and empty take the same branch), and
\* output_to_next is "true", "false" or "absent".
Stage(name, filter, transform, group_by, metrics, otn) ==
    [name |-> name, filter |-> filter, transform |-> transform, group_by |-> group_by,
     metrics |-> metrics, output_to_next |-> otn]

StageSet ==
    { Stage("raw_metrics", "none", "none", <<>>,
            <<Callable("is_high_score", Fn("is_high_score"))>>, "true"),
      Stage("by_model", "none", "none", <<"model">>,
            <<Named("avg_score", "mean"), Named("count", "count")>>, "true"),
      Stage("summary", "none", "none", <<"model">>, <<Named("n", "count")>>, "absent"),
      Stage("filtered_data", "score_gt_1", "none", <<>>,
            <<Callable("high_enough", Fn("high_enough"))>>, "false"),
      Stage("transformed_data", "none", "assign_centered", <<>>, <<>>, "true"),
      Stage("centered", "score_gt_1", "assign_centered", <<>>,
            <<Named("ncols", "count")>>, "false"),
      Stage("filtered_data", "score_gt_1", "none", <<"model", "len">>,
            <<Named("total", "sum")>>, "true"),
      Stage("raw_metrics", "none", "add_flag_inplace", <<>>, <<>>, "absent"),
      Stage("scores", "none", "none", <<>>,
            <<Callable("high_enough", Fn("high_enough")),
              Callable("int_score", Fn("int_score"))>>, "true"),
      Stage("invalid", "none", "none", <<>>,
            <<Named("invalid_metric", "nonexistent_function")>>, "true"),
      Stage("invalid", "score_gt_1", "none", <<"model">>,
            <<Named("invalid_metric", "nonexistent_function")>>, "true"),
      Stage("experiment_summary", "none", "none", <<"model">>,
            <<Named("mean_score", "mean"), Named("top", "max"),
              Named("high_score_rate", "mean")>>, "absent"),
      Stage("kept", "score_gt_1", "assign_centered", <<"nonexistent_column">>, <<>>, "true") }

PipelineConfigs == SeqsUpTo(StageSet, MaxStages)

PipeRow(m, l, sc) ==
    [c \in {"model", "len", "score"} |-> CASE c = "model" -> m [] c = "len" -> l [] OTHER -> sc]

PipeTable(rows) == [cols |-> <<"model", "len", "score">>, numeric |-> {"len", "score"}, rows |-> rows]

\* the input tables of the pipeline
PipeTables ==
    { PipeTable(<<>>),
      PipeTable(<<PipeRow(Str("b"), Num(1), Num(3))>>),
      PipeTable(<<PipeRow(Str("b"), Num(2), Num(3)), PipeRow(Str("a"), Num(1), Num(1)),
                  PipeRow(Str("b"), Num(1), Null)>>),
      PipeTable(<<PipeRow(Str("a"), Num(1), Num(3)), PipeRow(Null, Num(2), Num(3))>>) }

\* a copy that is the same object
DataCopyAlias(h, id) == [heap |-> h, id |-> id]

\* DataFrame.copy(): a new object holding the same table
DataCopy(h, id) == [heap |-> Append(h, h[id]), id |-> Len(h) + 1]

\* a new object holding table t
NewObject(h, t) == [heap |-> Append(h, t), id |-> Len(h) + 1]

\* an entry is kept once it is there (results.setdefault)
StoreResultKeepFirst(res, name, id) ==
    [n \in DOMAIN res \cup {name} |-> IF n \in DOMAIN res THEN res[n] ELSE id]

\* results[stage_name] = stage_data (line 145)
StoreResult(res, name, id) ==
    [n \in DOMAIN res \cup {name} |-> IF n = name THEN id ELSE res[n]]

\* every stage's output is carried forward
NextCurrentAlways(stage, current, produced) == produced

\* lines 148-149: the object the next stage starts from
NextCurrent(stage, current, produced) ==
    IF stage.output_to_next = "true" THEN produced ELSE current

\* the call multi_level_pipeline(data, pipeline_config): lines 108-109
CallPipeline ==
    /\ pc = "new"
    /\ \E d \in PipeTables, config \in PipelineConfigs :
          LET c == DataCopy(<<d>>, 1)
          IN  /\ heap' = c.heap
              /\ data' = 1
              /\ current_data' = c.id
              /\ pipeline_config' = config
              /\ input_before' = d
    /\ stage_no' = 0
    /\ stage_data' = 0
    /\ results' = EmptyMap
    /\ started' = <<>>
    /\ recorded' = <<>>
    /\ pc' = "loop"
    /\ UNCHANGED <<extVars, aggregation_functions, aggVars, runVars>>

\* lines 111-113: the next stage starts from a copy of current_data
StageBegin ==
    /\ pc = "loop"
    /\ stage_no < Len(pipeline_config)
    /\ LET c == DataCopy(heap, current_data)
       IN  /\ heap' = c.heap
           /\ stage_data' = c.id
           /\ started' = Append(started, c.heap[c.id])
    /\ stage_no' = stage_no + 1
    /\ pc' = "filter"
    /\ UNCHANGED <<extVars, aggregation_functions, aggVars, runVars, data, pipeline_config, current_data,
                   results, input_before, recorded>>

\* lines 115-118
StageFilter ==
    /\ pc = "filter"
    /\ LET stage == pipeline_config[stage_no]
           r == FilterRows(heap[stage_data], Fn(stage.filter))
       IN  IF stage.filter = "none"
           THEN pc' = "transform" /\ UNCHANGED <<heap, stage_data>>
           ELSE IF r.ok
           THEN /\ heap' = NewObject(heap, r.table).heap
                /\ stage_data' = NewObject(heap, r.table).id
                /\ pc' = "transform"
           ELSE pc' = "raised" /\ UNCHANGED <<heap, stage_data>>
    /\ UNCHANGED <<extVars, aggregation_functions, aggVars, runVars, data, pipeline_config, stage_no,
                   current_data, results, input_before, started, recorded>>

\* lines 120-123
StageTransform ==
    /\ pc = "transform"
    /\ LET stage == pipeline_config[stage_no]
           r == CallTransform(stage.transform, heap[stage_data])
       IN  IF stage.transform = "none"
           THEN pc' = "metrics" /\ UNCHANGED <<heap, stage_data>>
           ELSE IF ~r.ok
           THEN pc' = "raised" /\ UNCHANGED <<heap, stage_data>>
           ELSE IF stage.transform \in InPlaceTransforms
           THEN /\ heap' = [heap EXCEPT ![stage_data] = r.table]
                /\ pc' = "metrics"
                /\ UNCHANGED stage_data
           ELSE /\ heap' = NewObject(heap, r.table).heap
                /\ stage_data' = NewObject(heap, r.table).id
                /\ pc' = "metrics"
    /\ UNCHANGED <<extVars, aggregation_functions, aggVars, runVars, data, pipeline_config, stage_no,
                   current_data, results, input_before, started, recorded>>

\* a stage computes metrics when it has metrics or a group_by
HasMetricsOrGroupBy(stage) == stage.metrics # <<>> \/ stage.group_by # <<>>

\* line 126: "metrics" in stage and stage["metrics"]
HasMetrics(stage) == stage.metrics # <<>>

\* lines 125-142
StageMetrics ==
    /\ pc = "metrics"
    /\ LET stage == pipeline_config[stage_no]
           agg == Aggregate(aggregation_functions, heap[stage_data], stage.group_by,
                            stage.metrics)
           rowwise == RowMetrics(aggregation_functions, heap[stage_data], stage.metrics, 1)
       IN  IF ~HasMetrics(stage)
           THEN pc' = "store" /\ UNCHANGED <<heap, stage_data>>
           ELSE IF stage.group_by # <<>>
           THEN IF agg.ok
                THEN /\ heap' = NewObject(heap, agg.table).heap
                     /\ stage_data' = NewObject(heap, agg.table).id
                     /\ pc' = "store"
                ELSE pc' = "raised" /\ UNCHANGED <<heap, stage_data>>
           ELSE /\ heap' = [heap EXCEPT ![stage_data] = rowwise.table]
                /\ pc' = IF rowwise.ok THEN "store" ELSE "raised"
                /\ UNCHANGED stage_data
    /\ UNCHANGED <<extVars, aggregation_functions, aggVars, runVars, data, pipeline_config, stage_no,
                   current_data, results, input_before, started, recorded>>

\* line 145
StageStore ==
    /\ pc = "store"
    /\ results' = StoreResult(results, pipeline_config[stage_no].name, stage_data)
    /\ recorded' = Append(recorded, heap[stage_data])
    /\ pc' = "carry"
    /\ UNCHANGED <<extVars, aggregation_functions, aggVars, runVars, heap, data, pipeline_config, stage_no,
                   current_data, stage_data, input_before, started>>

\* lines 147-149
StageCarry ==
    /\ pc = "carry"
    /\ current_data' = NextCurrent(pipeline_config[stage_no], current_data, stage_data)
    /\ pc' = "loop"
    /\ UNCHANGED <<extVars, aggregation_functions, aggVars, runVars, heap, data, pipeline_config, stage_no,
                   stage_data, results, input_before, started, recorded>>

\* line 151
ReturnResults ==
    /\ pc = "loop"
    /\ stage_no = Len(pipeline_config)
    /\ pc' = "returned"
    /\ UNCHANGED <<extVars, aggregation_functions, aggVars, runVars, pipeVars>>

NextPipe ==
    \/ Register
    \/ CallPipeline
    \/ StageBegin
    \/ StageFilter
    \/ StageTransform
    \/ StageMetrics
    \/ StageStore
    \/ StageCarry
    \/ ReturnResults

SpecPipe == Init /\ [][NextPipe]_vars

\* -------------------------------------------- run_from_config: the caller
\* the tables load_csv returns
RatingRow(m, r) == [c \in {"model", "judge_rating"} |-> IF c = "model" THEN m ELSE r]
RatingTable(rows) == [cols |-> <<"model", "judge_rating">>, numeric |-> {"judge_rating"},
                      rows |-> rows]
RunTables ==
    { EmptyFrame(<<>>),
      RatingTable(<<>>),
      RatingTable(<<RatingRow(Str("b"), Num(4)), RatingRow(Str("a"), Num(5)),
                    RatingRow(Str("b"), Num(3))>>),
      RatingTable(<<RatingRow(Null, Num(4)), RatingRow(Str("a"), Null)>>),
      RatingTable(<<RatingRow(Null, Num(4))>>),
      [cols |-> <<"model", "prompt">>, numeric |-> {},
       rows |-> <<[c \in {"model", "prompt"} |-> IF c = "model" THEN Str("a") ELSE Str("p")]>>],
      [cols |-> <<"model", "not_a_rating", "Rating">>, numeric |-> {"not_a_rating", "Rating"},
       rows |-> <<[c \in {"model", "not_a_rating", "Rating"} |->
                     IF c = "model" THEN Str("a") ELSE Num(2)],
                  [c \in {"model", "not_a_rating", "Rating"} |->
                     IF c = "model" THEN Str("a") ELSE Num(1)]>>] }

\* what the file system does in a run: load_csv raises or returns a table,
\* write_dataframe raises or returns
RunFiles ==
    {[load_raises |-> TRUE, table |-> EmptyFrame(<<>>), write_raises |-> FALSE]}
    \cup {[load_raises |-> FALSE, table |-> t, write_raises |-> w] :
             t \in RunTables, w \in BOOLEAN}

RunGroupBys ==
    {ListVal(<<"model">>), StrVal("model"), ListVal(<<"nonexistent_column">>),
     ListVal(<<"model", "prompt">>), ListVal(<<>>)}

RunMetricLists ==
    {ListVal(<<"avg_judge_rating", "count">>), ListVal(<<"count">>),
     ListVal(<<"median">>), ListVal(<<"count", "avg_rating">>),
     ListVal(<<"avg_model", "avg_judge_rating">>)}

\* the configuration with the given keys
Config(keys, g, ml) ==
    [k \in keys |->
        CASE k = "input_csv" -> StrVal("ratings.csv")
          [] k = "output_csv" -> StrVal("analysis.csv")
          [] k = "group_by" -> g
          [] OTHER -> ml]

\* the call run_from_config(cfg)
CallRunFromConfig ==
    /\ pc = "new"
    /\ \E keys \in SUBSET ConfigKeys, g \in RunGroupBys, ml \in RunMetricLists, f \in RunFiles :
          /\ cfg' = Config(keys, g, ml)
          /\ files' = f
    /\ pc' = "run_keys"
    /\ UNCHANGED <<extVars, aggregation_functions, aggVars, pipeVars, run_data, run_metrics, result_df,
                   loads, writes, ret>>

\* lines 44-49
RunCheckKeys ==
    /\ pc = "run_keys"
    /\ IF FirstMissingKey(cfg) # ""
       THEN /\ ret' = Failure("missing config key", FirstMissingKey(cfg))
            /\ pc' = "run_done"
       ELSE pc' = "run_load" /\ UNCHANGED ret
    /\ UNCHANGED <<extVars, aggregation_functions, aggVars, pipeVars, cfg, files, run_data, run_metrics,
                   result_df, loads, writes>>

\* lines 51-57
RunLoad ==
    /\ pc = "run_load"
    /\ loads' = Append(loads, cfg["input_csv"].items[1])
    /\ IF files.load_raises
       THEN /\ ret' = Failure("failed to load input_csv", "")
            /\ pc' = "run_done"
            /\ UNCHANGED run_data
       ELSE /\ run_data' = files.table
            /\ pc' = "run_empty"
            /\ UNCHANGED ret
    /\ UNCHANGED <<extVars, aggregation_functions, aggVars, pipeVars, cfg, files, run_metrics, result_df,
                   writes>>

\* lines 59-62
RunCheckEmpty ==
    /\ pc = "run_empty"
    /\ IF Len(run_data.rows) = 0
       THEN /\ ret' = Failure("input data is empty", "")
            /\ pc' = "run_done"
       ELSE pc' = "run_metrics" /\ UNCHANGED ret
    /\ UNCHANGED <<extVars, aggregation_functions, aggVars, pipeVars, cfg, files, run_data, run_metrics,
                   result_df, loads, writes>>

\* lines 64-91
RunBuildMetrics ==
    /\ pc = "run_metrics"
    /\ IF "metrics" \in DOMAIN cfg
       THEN /\ run_metrics' = WithCount(ConvertMetrics(cfg["metrics"].items, 1, <<>>))
            /\ pc' = "run_aggregate"
            /\ UNCHANGED ret
       ELSE IF DetectRatingColumns(run_data) = <<>>
       THEN /\ ret' = Failure("No rating columns found and no metrics specified", "")
            /\ pc' = "run_done"
            /\ UNCHANGED run_metrics
       ELSE /\ run_metrics' = AutoMetrics(DetectRatingColumns(run_data))
            /\ pc' = "run_aggregate"
            /\ UNCHANGED ret
    /\ UNCHANGED <<extVars, aggregation_functions, aggVars, pipeVars, cfg, files, run_data, result_df,
                   loads, writes>>

\* lines 93-129 (and 140-142 when the fallback raises)
RunAggregate ==
    /\ pc = "run_aggregate"
    /\ LET r == RunAggregation(run_data, cfg["group_by"].items, run_metrics,
                               Aggregate(BuiltinFunctions, run_data, cfg["group_by"].items,
                                         run_metrics))
       IN  IF r.ok
           THEN /\ result_df' = r.table
                /\ pc' = "run_write"
                /\ UNCHANGED ret
           ELSE /\ ret' = Failure("error during analytics", "")
                /\ pc' = "run_done"
                /\ UNCHANGED result_df
    /\ UNCHANGED <<extVars, aggregation_functions, aggVars, pipeVars, cfg, files, run_data, run_metrics,
                   loads, writes>>

\* lines 131-142
RunWrite ==
    /\ pc = "run_write"
    /\ writes' = Append(writes, [table |-> result_df, path |-> cfg["output_csv"].items[1]])
    /\ ret' = IF files.write_raises THEN Failure("error during analytics", "")
              ELSE Success(<<cfg["output_csv"].items[1]>>, ReportedRows(result_df, run_data))
    /\ pc' = "run_done"
    /\ UNCHANGED <<extVars, aggregation_functions, aggVars, pipeVars, cfg, files, run_data, run_metrics,
                   result_df, loads>>

NextRun ==
    \/ CallRunFromConfig
    \/ RunCheckKeys
    \/ RunLoad
    \/ RunCheckEmpty
    \/ RunBuildMetrics
    \/ RunAggregate
    \/ RunWrite

SpecRun == Init /\ [][NextRun]_vars

\* --------------------------------------------- add-in discovery: the caller
\* the entry points of the manifests: one that resolves to an add-in, one
\* without a module part, one of a missing module, one of a missing class and
\* one of a class that is not an add-in
EntryPoints ==
    {<<"dummy_module", "ValidAddin">>, <<"ValidAddin">>, <<"missing_module", "ValidAddin">>,
     <<"dummy_module", "DoesNotExist">>, <<"dummy_module", "NotAnAddin">>}

AddinNames == <<"FirstAddin", "SecondAddin", "ThirdAddin">>

\* the files the i-th entry of the directory listing can be
ManifestFiles(i) ==
    {Manifest(".yaml", "complete", AddinNames[i], e) : e \in EntryPoints}
    \cup {Manifest(".yaml", c, AddinNames[i], <<"dummy_module", "ValidAddin">>) :
             c \in {"missing_fields", "mistyped_fields", "empty", "unparseable"}}
    \cup {Manifest(".yml", "complete", AddinNames[i], <<"dummy_module", "ValidAddin">>)}

\* the directory listings, in the order os.listdir returns the files
Directories ==
    UNION {{d \in [1..k -> UNION {ManifestFiles(i) : i \in 1..k}] :
               \A i \in 1..k : d[i] \in ManifestFiles(i)} : k \in 0..MaxFiles}

\* reg = AddinRegistry(); reg.discover_from_manifests(manifest_dir)
CallDiscover ==
    /\ pc = "new"
    /\ \E d \in Directories : manifest_dir' = d
    /\ registry' = EmptyMap
    /\ scan_no' = 1
    /\ pc' = "discover"
    /\ UNCHANGED <<aggregation_functions, aggVars, pipeVars, runVars, trackVars, other_functions,
                   exception>>

\* lines 26-39: one pass of the loop over the directory listing
DiscoverFile ==
    /\ pc = "discover"
    /\ scan_no <= Len(manifest_dir)
    /\ LET m == manifest_dir[scan_no]
           r == LoadAddin(registry, m)
       IN  IF m.ext # ".yaml" THEN
                /\ scan_no' = scan_no + 1
                /\ UNCHANGED <<pc, registry, exception>>
           ELSE IF r.ok THEN
                /\ registry' = r.v
                /\ scan_no' = scan_no + 1
                /\ UNCHANGED <<pc, exception>>
           ELSE IF r.err \in CaughtInScan THEN
                /\ scan_no' = scan_no + 1
                /\ UNCHANGED <<pc, registry, exception>>
           ELSE /\ exception' = r.err
                /\ pc' = "discover_raised"
                /\ UNCHANGED <<registry, scan_no>>
    /\ UNCHANGED <<aggregation_functions, aggVars, pipeVars, runVars, trackVars, other_functions,
                   manifest_dir>>

\* the loop is over: discover_from_manifests returns
DiscoverReturn ==
    /\ pc = "discover"
    /\ scan_no > Len(manifest_dir)
    /\ pc' = "discover_returned"
    /\ UNCHANGED <<aggregation_functions, aggVars, pipeVars, runVars, extVars>>

NextDiscover == CallDiscover \/ DiscoverFile \/ DiscoverReturn

SpecDiscover == Init /\ [][NextDiscover]_vars

\* ------------------------------------------- ExperimentTracker: the caller
Fingerprints == {<<"3f2a">>, <<"9c01">>}

ResultsValues ==
    {PyDict(<< <<"score", PyFloat(50)>> >>),
     PyDict(<< <<"accuracy", PyFloat(85)>>,
               <<"examples", PyList(<<PyStr("good example"), PyStr("bad example")>>)>> >>)}

TagsValues ==
    {PyNone, PyList(<<>>), PyList(<<PyStr("production")>>),
     PyList(<<PyStr("production"), PyStr("high-quality")>>)}

AskedTags == {PyStr("production"), PyStr("high-quality"), PyStr("nonexistent")}

\* os.listdir(storage_path): the file names in any order
Listings(store) ==
    {l \in [1..Cardinality(DOMAIN store) -> DOMAIN store] :
        \A i, j \in 1..Cardinality(DOMAIN store) : l[i] = l[j] => i = j}

\* ExperimentTracker(storage_path) on a directory that is empty
NewTracker ==
    /\ pc = "new"
    /\ pc' = "tracker"
    /\ storage' = EmptyMap
    /\ saved' = EmptyMap
    /\ UNCHANGED <<aggregation_functions, aggVars, pipeVars, runVars, addinVars, tracker_ret,
                   other_functions, exception>>

\* tracker.save_results(fingerprint, results, tags)
TrackerSave ==
    /\ pc = "tracker"
    /\ \E fp \in Fingerprints, r \in ResultsValues, t \in TagsValues :
          /\ storage' = save_results(storage, fp, r, t)
          /\ saved' = [f \in DOMAIN saved \cup {fp} |->
                          IF f = fp THEN [results |-> r, tags |-> t, again |-> fp \in DOMAIN saved]
                          ELSE saved[f]]
          /\ tracker_ret' = [op |-> "save", fp |-> fp, tag |-> PyNone, r |-> Returned(PyNone)]
    /\ UNCHANGED <<pc, aggregation_functions, aggVars, pipeVars, runVars, addinVars,
                   other_functions, exception>>

\* tracker.load_results(fingerprint)
TrackerLoad ==
    /\ pc = "tracker"
    /\ \E fp \in Fingerprints :
          tracker_ret' = [op |-> "load", fp |-> fp, tag |-> PyNone,
                          r |-> load_results(storage, fp)]
    /\ UNCHANGED <<pc, aggregation_functions, aggVars, pipeVars, runVars, addinVars, storage,
                   saved, other_functions, exception>>

\* tracker.list_experiments()
TrackerList ==
    /\ pc = "tracker"
    /\ \E l \in Listings(storage) :
          tracker_ret' = [op |-> "list", fp |-> <<>>, tag |-> PyNone,
                          r |-> Returned(list_experiments(l))]
    /\ UNCHANGED <<pc, aggregation_functions, aggVars, pipeVars, runVars, addinVars, storage,
                   saved, other_functions, exception>>

\* tracker.filter_experiments(tag)
TrackerFilter ==
    /\ pc = "tracker"
    /\ \E l \in Listings(storage), tag \in AskedTags :
          tracker_ret' = [op |-> "filter", fp |-> <<>>, tag |-> tag,
                          r |-> Returned(filter_experiments(storage, l, tag))]
    /\ UNCHANGED <<pc, aggregation_functions, aggVars, pipeVars, runVars, addinVars, storage,
                   saved, other_functions, exception>>

NextTracker == NewTracker \/ TrackerSave \/ TrackerLoad \/ TrackerList \/ TrackerFilter

SpecTracker == Init /\ [][NextTracker]_vars

\* ------------------------------------------------ AnalyticsAPI: the caller
ApiConfigKeys == {"input_csv", "output_csv", "group_col", "metrics"}

ApiConfig(keys, g, ml) ==
    [k \in keys |->
        CASE k = "input_csv" -> StrVal("ratings.csv")
          [] k = "output_csv" -> StrVal("analysis.csv")
          [] k = "group_col" -> g
          [] OTHER -> ml]

ApiMetricLists == {ListVal(<<"judge_rating">>), ListVal(<<"ReliabilityMetric">>)}

\* the call AnalyticsAPI.run_from_config(cfg)
CallApi ==
    /\ pc = "new"
    /\ \E keys \in SUBSET ApiConfigKeys, g \in {ListVal(<<"model">>), ListVal(<<"nonexistent_column">>)},
          ml \in ApiMetricLists, f \in RunFiles :
          /\ cfg' = ApiConfig(keys, g, ml)
          /\ files' = f
    /\ pc' = "api_validate"
    /\ UNCHANGED <<aggregation_functions, aggVars, pipeVars, extVars, run_data, run_metrics,
                   result_df, loads, writes, ret>>

\* line 9
ApiValidate ==
    /\ pc = "api_validate"
    /\ IF validate_config(cfg).ok
       THEN pc' = "api_load" /\ UNCHANGED exception
       ELSE pc' = "api_raised" /\ exception' = validate_config(cfg).err
    /\ UNCHANGED <<aggregation_functions, aggVars, pipeVars, runVars, addinVars, trackVars,
                   other_functions>>

\* line 10
ApiLoad ==
    /\ pc = "api_load"
    /\ loads' = Append(loads, cfg["input_csv"].items[1])
    /\ IF files.load_raises
       THEN /\ exception' = "Exception"
            /\ pc' = "api_raised"
            /\ UNCHANGED run_data
       ELSE /\ run_data' = files.table
            /\ pc' = "api_run"
            /\ UNCHANGED exception
    /\ UNCHANGED <<aggregation_functions, aggVars, pipeVars, addinVars, trackVars,
                   other_functions, cfg, files, run_metrics, result_df, writes, ret>>

\* lines 11-15
ApiRun ==
    /\ pc = "api_run"
    /\ run_metrics' = get_metrics("metrics" \in DOMAIN cfg,
                                  IF "metrics" \in DOMAIN cfg THEN cfg["metrics"].items ELSE <<>>)
    /\ LET r == ApiAggregate(run_data, run_metrics', cfg["group_col"].items)
       IN  IF ~r.ok
           THEN /\ exception' = r.err
                /\ pc' = "api_raised"
                /\ UNCHANGED <<result_df, writes, ret>>
           ELSE /\ result_df' = r.table
                /\ writes' = Append(writes, [table |-> r.table,
                                             path |-> cfg["output_csv"].items[1]])
                /\ IF files.write_raises
                   THEN /\ exception' = "Exception"
                        /\ pc' = "api_raised"
                        /\ UNCHANGED ret
                   ELSE /\ ret' = Success(<<cfg["output_csv"].items[1]>>, Len(r.table.rows))
                        /\ pc' = "api_returned"
                        /\ UNCHANGED exception
    /\ UNCHANGED <<aggregation_functions, aggVars, pipeVars, addinVars, trackVars,
                   other_functions, cfg, files, run_data, loads>>

NextApi == CallApi \/ ApiValidate \/ ApiLoad \/ ApiRun

SpecApi == Init /\ [][NextApi]_vars

\* ---------------------------------------------- two aggregators: the caller
\* a second DataAggregator() is constructed
NewOther ==
    /\ pc = "new"
    /\ other_functions' = BuiltinFunctions
    /\ pc' = "two"
    /\ UNCHANGED <<aggregation_functions, aggVars, pipeVars, runVars, addinVars, trackVars,
                   exception>>

\* register_aggregation_function on one of the two
RegisterEither ==
    /\ pc = "two"
    /\ \E inst \in {1, 2}, r \in Registrations :
          LET after == RegisterOn(aggregation_functions, other_functions, inst, r[1], r[2])
          IN  /\ <<after.first, after.other>> # <<aggregation_functions, other_functions>>
              /\ aggregation_functions' = after.first
              /\ other_functions' = after.other
    /\ UNCHANGED <<pc, aggVars, pipeVars, runVars, addinVars, trackVars, exception>>

\* the metrics of the calls made with two aggregators
TwoMetricSets == {<<Named("q", "p75")>>, <<Named("avg", "mean")>>}

\* aggregate called on one of the two
CallAggregateOn ==
    /\ pc = "two"
    /\ \E inst \in {1, 2}, m \in TwoMetricSets :
          LET d == PipeTable(<<PipeRow(Str("b"), Num(2), Num(3)),
                               PipeRow(Str("a"), Num(1), Num(1))>>)
          IN  /\ call' = [data |-> d, group_by |-> <<"model">>, metrics |-> m, on |-> inst]
              /\ out' = Aggregate(IF inst = 1 THEN aggregation_functions ELSE other_functions,
                                  d, <<"model">>, m)
              /\ pc' = IF out'.ok THEN "two_returned" ELSE "two_raised"
    /\ UNCHANGED <<aggregation_functions, pipeVars, runVars, extVars>>

NextTwo == NewOther \/ RegisterEither \/ CallAggregateOn

\* a caller of the aggregation core: one aggregate call, one pipeline call or
\* one run_from_config call
Next == CallAggregate \/ NextPipe \/ NextRun \/ NextDiscover \/ NextTracker \/ NextApi \/ NextTwo

Spec == Init /\ [][Next]_vars

\* ------------------------------------------------------------------ claims
Max(S) == CHOOSE x \in S : \A y \in S : y <= x

\* the stages before stage k whose output_to_next is true
CarryingBefore(k) == {j \in 1..(k - 1) : pipeline_config[j].output_to_next = "true"}

\* C1: the table a stage starts from is the recorded result of the nearest
\* earlier stage whose output_to_next is true, or the original input table when
\* no earlier stage has it true; a stage whose output_to_next is false or
\* absent is never the input of a later stage.
C1_StageStartsFromCarried ==
    \A k \in 1..Len(started) :
        started[k] = IF CarryingBefore(k) = {} THEN input_before
                     ELSE recorded[Max(CarryingBefore(k))]

\* stages [A true, B not true, C]: C has started from A's result, which
\* differs from B's result and from the input
C1_Witness ==
    /\ Len(started) = 3
    /\ pipeline_config[1].output_to_next = "true"
    /\ pipeline_config[2].output_to_next # "true"
    /\ started[3] = recorded[1]
    /\ recorded[1] # recorded[2]
    /\ recorded[1] # input_before

\* the last stage of the configuration that carries the name of stage k
LastNamed(k) ==
    Max({j \in 1..Len(pipeline_config) : pipeline_config[j].name = pipeline_config[k].name})

\* C2 as stated: the returned mapping holds every stage's resulting table under
\* the stage's name, for every stage list, names repeated or not.
C2_EveryStageHeld ==
    pc = "returned" /\ heap # <<>> =>
        \A k \in 1..Len(pipeline_config) :
            /\ pipeline_config[k].name \in DOMAIN results
            /\ heap[results[pipeline_config[k].name]] = recorded[k]

\* C2 as amended: the returned mapping has exactly the stages' names as keys
\* and holds under each name the resulting table of the last stage of that
\* name, whether or not the stage sets output_to_next: every stage's table
\* when the names are distinct.
C2_LastOfEachNameHeld ==
    pc = "returned" /\ heap # <<>> =>
        /\ DOMAIN results = {pipeline_config[k].name : k \in 1..Len(pipeline_config)}
        /\ \A k \in 1..Len(pipeline_config) :
              heap[results[pipeline_config[k].name]] = recorded[LastNamed(k)]

\* a call with three stages of distinct names has returned, the second stage
\* not carried forward: the mapping holds the three tables
C2_Witness ==
    /\ pc = "returned"
    /\ Len(pipeline_config) = 3
    /\ Cardinality(DOMAIN results) = 3
    /\ pipeline_config[2].output_to_next # "true"
    /\ recorded[1] # recorded[2]
    /\ \A k \in 1..3 : heap[results[pipeline_config[k].name]] = recorded[k]

\* C3: multi_level_pipeline never modifies the caller's input table, whatever
\* the stages do and whether the call returns or raises.
C3_InputUnchanged == heap # <<>> => heap[data] = input_before

\* a call that raised after a stage changed its working table in place
C3_Witness ==
    /\ pc = "raised"
    /\ Len(recorded) >= 1
    /\ \E k \in 1..Len(recorded) :
          /\ pipeline_config[k].transform = "add_flag_inplace" \/ pipeline_config[k].group_by = <<>>
          /\ recorded[k] # started[k]
          /\ recorded[k].cols # input_before.cols

\* an aggregate call has been made and has ended
AggCalled == pc \in {"returned", "raised"} /\ heap = <<>>

\* group_by names one or more columns, all of them columns of the table
ValidGroupBy == call.group_by # <<>> /\ Range(call.group_by) \subseteq Range(call.data.cols)

\* the input rows that carry the key of the result row r
RowsOfKey(r) ==
    SelectSeq(call.data.rows, LAMBDA x : KeyOf(x, call.group_by) = KeyOf(r, call.group_by))

\* C4: for a non-empty table T (nulls permitted in any column, key columns
\* included) and a list G of columns of T, aggregate(T, G, {"count": "count"})
\* returns per-group counts whose sum is the number of rows of T.
C4_CountsSumToRows ==
    AggCalled /\ ~IsEmpty(call.data) /\ ValidGroupBy
              /\ call.metrics = <<Named("count", "count")>> =>
        /\ out.ok
        /\ SumSeq(Column(out.table.rows, "count")) = Num(Len(call.data.rows))

\* no metric's output name is the name of a group_by column
NoNameClash == Range(MetricKeys(call.metrics)) \cap Range(call.group_by) = {}

\* C5: for a non-empty table and a valid group_by, aggregate returns exactly one
\* row per distinct combination of key-column values occurring in the table,
\* and the metric values of a row are computed from precisely the input rows
\* that carry the row's key combination.
C5_OneRowPerKeyCombination ==
    AggCalled /\ ~IsEmpty(call.data) /\ ValidGroupBy /\ NoNameClash /\ out.ok =>
        /\ {KeyOf(out.table.rows[i], call.group_by) : i \in 1..Len(out.table.rows)}
              = {KeyOf(call.data.rows[i], call.group_by) : i \in 1..Len(call.data.rows)}
        /\ \A i, j \in 1..Len(out.table.rows) :
              KeyOf(out.table.rows[i], call.group_by) = KeyOf(out.table.rows[j], call.group_by)
                  => i = j
        /\ \A i \in 1..Len(out.table.rows), k \in 1..Len(call.metrics) :
              /\ call.metrics[k].fn.f = "count" =>
                    out.table.rows[i][call.metrics[k].out]
                        = Num(Len(RowsOfKey(out.table.rows[i])))
              /\ call.metrics[k].fn.f \in PandasNames =>
                    out.table.rows[i][call.metrics[k].out]
                        = PandasAgg(call.metrics[k].fn.f,
                                    Column(RowsOfKey(out.table.rows[i]), AggCol(call.data)))

\* C6: every table aggregate returns has as its columns exactly the group_by
\* columns plus one column per key of metrics, |group_by| + |metrics| columns,
\* whether or not an output name is also the name of a group_by column.
C6_ColumnsAreKeysPlusMetrics ==
    AggCalled /\ out.ok =>
        /\ out.table.cols = call.group_by \o MetricKeys(call.metrics)
        /\ Len(out.table.cols) = Len(call.group_by) + Len(call.metrics)

\* a stage with group_by and metrics
IsGroupedStage(stage) == stage.group_by # <<>> /\ stage.metrics # <<>>

\* C7: aggregate on a table with zero rows never raises and returns a zero-row
\* table whose columns are exactly group_by + keys(metrics), whatever group_by
\* and metrics are; so a pipeline stage with group_by and metrics whose working
\* table is empty records an empty result instead of failing.
C7_EmptyInputEmptyResult ==
    /\ [](AggCalled /\ IsEmpty(call.data) =>
            /\ out.ok
            /\ out.table.rows = <<>>
            /\ out.table.cols = call.group_by \o MetricKeys(call.metrics))
    /\ [][pc = "metrics" /\ IsGroupedStage(pipeline_config[stage_no])
             /\ IsEmpty(heap[stage_data]) =>
            /\ pc' = "store"
            /\ heap'[stage_data'].rows = <<>>
            /\ heap'[stage_data'].cols = pipeline_config[stage_no].group_by
                                            \o MetricKeys(pipeline_config[stage_no].metrics)]_vars

\* aggregate returned for an empty table although group_by names a missing
\* column and the metric an unregistered function
C7_Witness ==
    /\ AggCalled
    /\ out.ok
    /\ Len(call.data.rows) = 0
    /\ "nonexistent_column" \in Range(call.group_by)
    /\ \E k \in 1..Len(call.metrics) : call.metrics[k].fn.f = "nonexistent_function"
    /\ out.table.cols = call.group_by \o MetricKeys(call.metrics)

\* some metric value of the call is a string that is not a key of
\* aggregation_functions
HasUnknownName ==
    \E k \in 1..Len(call.metrics) :
        call.metrics[k].kind = "name" /\ call.metrics[k].fn.f \notin DOMAIN aggregation_functions

\* the metrics listed before the first unregistered name
BeforeUnknown ==
    SubSeq(call.metrics, 1,
           (CHOOSE k \in 1..Len(call.metrics) :
               /\ call.metrics[k].kind = "name"
               /\ call.metrics[k].fn.f \notin DOMAIN aggregation_functions
               /\ \A j \in 1..(k - 1) :
                     call.metrics[j].kind = "name" =>
                         call.metrics[j].fn.f \in DOMAIN aggregation_functions) - 1)

\* C8 as stated: every call in which some metric value is an unregistered
\* string fails with the unknown-function error and returns no table.
C8_UnknownNameAlwaysFails ==
    AggCalled /\ HasUnknownName => ~out.ok /\ out.err = ErrUnknown

\* C8 as amended: on a non-empty table, a call in which some metric value is an
\* unregistered string raises and returns no table, and nothing is substituted
\* for the function; the error is the unknown-function ValueError whenever the
\* group_by is valid and the metrics listed before the unregistered name
\* compute without error. (On an empty table the call returns the empty table.)
C8_UnknownNameFailsOnRows ==
    AggCalled /\ HasUnknownName /\ ~IsEmpty(call.data) =>
        /\ ~out.ok
        /\ ValidGroupBy
              /\ Aggregate(aggregation_functions, call.data, call.group_by, BeforeUnknown).ok
                 => out.err = ErrUnknown

\* a call on a table with rows raised the unknown-function error after the
\* metric listed before the unregistered name had been computed
C8_Witness ==
    /\ AggCalled
    /\ Len(call.data.rows) > 0
    /\ Len(call.metrics) = 2
    /\ call.metrics[2].fn.f = "nonexistent_function"
    /\ out.err = ErrUnknown

\* C9 as stated: every call in which some group_by column is absent from data
\* fails with the column-not-found error.
C9_MissingColumnAlwaysFails ==
    AggCalled /\ ~(Range(call.group_by) \subseteq Range(call.data.cols)) =>
        ~out.ok /\ out.err = ErrColumn

\* C9 as amended: on a non-empty table, every call in which some group_by
\* column is absent from data fails with the column-not-found ValueError,
\* before any grouping is done or any metric is looked up or computed. (On an
\* empty table the call returns the empty table.)
C9_MissingColumnFailsOnRows ==
    AggCalled /\ ~IsEmpty(call.data)
              /\ ~(Range(call.group_by) \subseteq Range(call.data.cols)) =>
        ~out.ok /\ out.err = ErrColumn

\* a call on a table with rows whose second group_by column is missing and
\* whose metric is unregistered raised the column-not-found error
C9_Witness ==
    /\ AggCalled
    /\ Len(call.data.rows) > 0
    /\ call.group_by = <<"model", "nonexistent_column">>
    /\ HasUnknownName
    /\ out.err = ErrColumn

\* C10: a caller-supplied callable is invoked once per group with the group's
\* whole sub-table (not with a single column), and its return value is the
\* group's value in the metric's output column (stated for the tables that
\* have a numeric column).
C10_CallableGetsSubTable ==
    AggCalled /\ ~IsEmpty(call.data) /\ ValidGroupBy /\ NumericCols(call.data) # <<>>
              /\ (\A k \in 1..Len(call.metrics) : call.metrics[k].kind = "callable") =>
        /\ out.ok
        /\ \A i \in 1..Len(out.table.rows), k \in 1..Len(call.metrics) :
              out.table.rows[i][call.metrics[k].out]
                  = CallOnTable(call.metrics[k].fn,
                                GroupTable(call.data, call.group_by,
                                           KeyOf(out.table.rows[i], call.group_by))).v

\* the value column the claim names: 'score' when the table has a numeric
\* column of that name, otherwise the first column, in column order, that is
\* numeric
ClaimedValueColumn ==
    IF "score" \in call.data.numeric THEN "score"
    ELSE call.data.cols[CHOOSE i \in 1..Len(call.data.cols) :
                           /\ call.data.cols[i] \in call.data.numeric
                           /\ \A j \in 1..(i - 1) : call.data.cols[j] \notin call.data.numeric]

\* the first metric of the call is a reduction requested by one of pandas' names
FirstIsReduction == call.metrics # <<>> /\ call.metrics[1].kind = "name"
                       /\ call.metrics[1].fn.f \in PandasNames

\* C11: a reduction metric that aggregate computes (non-empty table, valid
\* group_by) takes its values from column 'score' when a numeric column of that
\* name exists, otherwise from the first numeric column in column order; when
\* the table has no numeric column the call fails with the no-numeric-columns
\* error.
C11_ValueColumnChoice ==
    AggCalled /\ ~IsEmpty(call.data) /\ ValidGroupBy /\ FirstIsReduction =>
        IF call.data.numeric = {} THEN ~out.ok /\ out.err = ErrNoNumeric
        ELSE NoNameClash /\ out.ok =>
                \A i \in 1..Len(out.table.rows) :
                    out.table.rows[i][call.metrics[1].out]
                        = PandasAgg(call.metrics[1].fn.f,
                                    Column(RowsOfKey(out.table.rows[i]), ClaimedValueColumn))

\* a sum over 'score' was returned for a table whose first numeric column is
\* 'len', the two columns summing to different values
C11_Witness ==
    /\ AggCalled /\ out.ok /\ Len(out.table.rows) = 1
    /\ call.data.cols = <<"model", "len", "score">>
    /\ call.group_by = <<"model">>
    /\ call.metrics = <<Named("total", "sum")>>
    /\ out.table.rows[1]["total"] = SumSeq(DropNull(Column(call.data.rows, "score")))
    /\ out.table.rows[1]["total"] # SumSeq(Column(call.data.rows, "len"))
    /\ Len(call.data.rows) = 2

\* every metric of the call is the built-in name 'count', and there is one
AllRowCounts ==
    /\ call.metrics # <<>>
    /\ \A k \in 1..Len(call.metrics) :
          call.metrics[k].kind = "name" /\ call.metrics[k].fn.f = "count"

\* C12: a metric that resolves to the row-count function yields for each group
\* the number of rows of the group, rows with a null value column included,
\* and needs no value column: a call whose metrics are all row counts succeeds
\* on a non-empty table with a valid group_by, numeric column or not.
C12_CountIsGroupSize ==
    AggCalled /\ ~IsEmpty(call.data) /\ ValidGroupBy /\ AllRowCounts =>
        /\ out.ok
        /\ NoNameClash =>
              \A i \in 1..Len(out.table.rows), k \in 1..Len(call.metrics) :
                  out.table.rows[i][call.metrics[k].out] = Num(Len(RowsOfKey(out.table.rows[i])))

\* a count of 2 was returned for a group of two rows of a table that has no
\* numeric column
C12_Witness ==
    /\ AggCalled /\ out.ok
    /\ call.data.numeric = {}
    /\ call.metrics = <<Named("count", "count")>>
    /\ Len(call.data.rows) = 2
    /\ Len(out.table.rows) = 1
    /\ out.table.rows[1]["count"] = Num(2)

\* the stage names, as a string, a metric that is not registered
NamesUnknownMetric(stage) ==
    \E k \in 1..Len(stage.metrics) :
        stage.metrics[k].kind = "name" /\ stage.metrics[k].fn.f \notin DOMAIN aggregation_functions

\* C13 as stated: a stage that names an unregistered metric never completes,
\* grouped or per-row and whatever its working table contains: the call raises
\* at that stage, runs no later stage and returns no mapping.
C13_UnknownMetricAlwaysAborts ==
    /\ [](\A k \in 1..Len(recorded) : ~NamesUnknownMetric(pipeline_config[k]))
    /\ [][pc = "raised" => pc' = "raised" /\ stage_no' = stage_no]_vars

\* C13 as amended: a per-row stage that names an unregistered metric, whatever
\* its working table, and a grouped stage that does so on a working table with
\* rows, make the call raise at that stage: no later stage runs and no mapping
\* is returned. A stage that names an unregistered metric completes only as a
\* grouped stage whose working table is empty, recording the empty result.
C13_UnknownMetricAbortsOnRows ==
    /\ [](\A k \in 1..Len(recorded) :
             NamesUnknownMetric(pipeline_config[k]) =>
                 /\ pipeline_config[k].group_by # <<>>
                 /\ recorded[k].rows = <<>>)
    /\ [][pc = "metrics" /\ NamesUnknownMetric(pipeline_config[stage_no])
             /\ (pipeline_config[stage_no].group_by = <<>> \/ ~IsEmpty(heap[stage_data]))
            => pc' = "raised"]_vars
    /\ [][pc = "raised" => pc' = "raised" /\ stage_no' = stage_no]_vars

\* the call raised at its second stage, a per-row stage naming an unregistered
\* metric, after the first stage had completed; a third stage was configured
C13_Witness ==
    /\ pc = "raised"
    /\ Len(pipeline_config) = 3
    /\ stage_no = 2
    /\ Len(recorded) = 1
    /\ pipeline_config[2].group_by = <<>>
    /\ NamesUnknownMetric(pipeline_config[2])
    /\ ~NamesUnknownMetric(pipeline_config[1])
    /\ heap[stage_data].rows # <<>>

\* the name is one the caller registered: a new name, or a built-in name whose
\* entry the caller overwrote
CallerRegistered(name) ==
    /\ name \in DOMAIN aggregation_functions
    /\ name \in DOMAIN BuiltinFunctions => aggregation_functions[name] # BuiltinFunctions[name]

\* C14: after register_aggregation_function(name, f), aggregation_functions[name]
\* is f, and every later aggregate call that requests a metric by that name
\* computes it with f, for a new name and for an overwritten built-in name
\* alike.
C14_RegisteredFunctionIsUsed ==
    /\ \A r \in Registrations :
          CallerRegistered(r[1]) => aggregation_functions[r[1]] = r[2]
    /\ AggCalled /\ ~IsEmpty(call.data) /\ ValidGroupBy /\ NoNameClash /\ out.ok =>
          \A i \in 1..Len(out.table.rows), k \in 1..Len(call.metrics) :
              call.metrics[k].kind = "name" /\ CallerRegistered(call.metrics[k].fn.f) =>
                  out.table.rows[i][call.metrics[k].out]
                      = CallOnSeries(aggregation_functions[call.metrics[k].fn.f],
                                     Column(RowsOfKey(out.table.rows[i]),
                                            ClaimedValueColumn)).v

\* every metric of the call is requested by a built-in name
AllBuiltinNames ==
    \A k \in 1..Len(call.metrics) :
        call.metrics[k].kind = "name" /\ call.metrics[k].fn.f \in DOMAIN BuiltinFunctions

\* C15: for a non-empty table with at least one numeric column, a valid
\* group_by and metrics that are all built-in names, aggregate returns a table
\* and does not raise, groups of a single row included.
C15_BuiltinsNeverRaise ==
    AggCalled /\ ~IsEmpty(call.data) /\ call.data.numeric # {} /\ ValidGroupBy
              /\ AllBuiltinNames =>
        /\ out.ok
        /\ Range(MetricKeys(call.metrics)) \subseteq Range(out.table.cols)

\* median, std, var and sem were returned for a table of one row, the last
\* three as nulls
C15_Witness ==
    /\ AggCalled /\ out.ok
    /\ Len(call.data.rows) = 1
    /\ Len(out.table.rows) = 1
    /\ Len(call.metrics) = 4
    /\ call.metrics[4].fn.f = "sem"
    /\ ~IsNull(out.table.rows[1]["med"])
    /\ IsNull(out.table.rows[1]["se"])
    /\ IsNull(out.table.rows[1]["sd"])

\* the rows of the table stage k started from for which the stage's filter
\* predicate returns true (all of them without a filter)
KeptRows(k) ==
    IF pipeline_config[k].filter = "none" THEN started[k].rows
    ELSE SelectSeq(started[k].rows,
                   LAMBDA r : CallOnRow(Fn(pipeline_config[k].filter), r, started[k].cols).v
                                 = Num(1))

\* the columns stage k started with, those its metrics write to left out
UntouchedCols(k) ==
    Range(started[k].cols) \ Range(MetricKeys(pipeline_config[k].metrics))

\* C16: in a stage the filter runs first, then the transform, then the
\* metrics. For every completed stage: without transform and aggregation the
\* recorded rows are exactly the starting rows that satisfy the filter
\* predicate, in order; the transform has received only those rows (the
\* centred score is the score minus the mean over the kept rows); and a
\* per-row metric has been computed on the transform's return value (the
\* column count it reports includes the column the transform added).
C16_FilterTransformMetrics ==
    \A k \in 1..Len(recorded) :
        /\ pipeline_config[k].transform = "none" /\ pipeline_config[k].group_by = <<>> =>
              /\ Len(recorded[k].rows) = Len(KeptRows(k))
              /\ \A i \in 1..Len(recorded[k].rows), c \in UntouchedCols(k) :
                    recorded[k].rows[i][c] = KeptRows(k)[i][c]
        /\ pipeline_config[k].transform = "assign_centered" =>
              /\ Len(recorded[k].rows) = Len(KeptRows(k))
              /\ \A i \in 1..Len(recorded[k].rows) :
                    /\ recorded[k].rows[i]["score"] = KeptRows(k)[i]["score"]
                    /\ ~IsNull(KeptRows(k)[i]["score"]) =>
                          recorded[k].rows[i]["score_centered"]
                              = RSub(KeptRows(k)[i]["score"],
                                     PandasAgg("mean", Column(KeptRows(k), "score")))
              /\ \A i \in 1..Len(recorded[k].rows), m \in 1..Len(pipeline_config[k].metrics) :
                    pipeline_config[k].metrics[m].fn.f = "count" =>
                        recorded[k].rows[i][pipeline_config[k].metrics[m].out]
                            = Num(Cardinality(Range(started[k].cols) \cup {"score_centered"}))

\* a stage with filter, transform and a per-row metric has completed on a
\* table of which the filter dropped a row; the mean over all starting rows
\* differs from the mean over the kept ones
C16_Witness ==
    \E k \in 1..Len(recorded) :
        /\ pipeline_config[k].filter = "score_gt_1"
        /\ pipeline_config[k].transform = "assign_centered"
        /\ pipeline_config[k].metrics # <<>>
        /\ Len(started[k].rows) = 3
        /\ Len(recorded[k].rows) = 1
        /\ recorded[k].rows[1]["score_centered"] = Num(0)
        /\ recorded[k].rows[1]["ncols"] = Num(4)
        /\ PandasAgg("mean", Column(started[k].rows, "score")) # recorded[k].rows[1]["score"]

\* a stage with metrics and no group_by
IsPerRowStage(stage) == stage.metrics # <<>> /\ stage.group_by = <<>>

\* the per-row stage's metrics are caller's row functions whose output names
\* are not columns of table t
AddsNewColumns(stage, t) ==
    /\ \A m \in 1..Len(stage.metrics) : stage.metrics[m].kind = "callable"
    /\ Range(MetricKeys(stage.metrics)) \cap Range(t.cols) = {}

\* C17: a stage with metrics and no group_by, working on a table with rows,
\* applies each metric function to every row and adds its values as one new
\* column per metric: the result has as many rows as the filtered/transformed
\* table and keeps all of that table's columns and values; and when a metric
\* function fails on some row the pipeline call raises instead of going on
\* without the row.
C17_PerRowMetrics ==
  /\ [][pc = "metrics" /\ IsPerRowStage(pipeline_config[stage_no]) /\ pc' = "store" =>
          /\ Len(heap'[stage_data'].rows) = Len(heap[stage_data].rows)
          /\ Range(heap[stage_data].cols) \subseteq Range(heap'[stage_data'].cols)
          /\ Range(MetricKeys(pipeline_config[stage_no].metrics))
                \subseteq Range(heap'[stage_data'].cols)]_vars
  /\ [][pc = "metrics" /\ IsPerRowStage(pipeline_config[stage_no])
          /\ ~IsEmpty(heap[stage_data])
          /\ AddsNewColumns(pipeline_config[stage_no], heap[stage_data]) =>
         LET stage == pipeline_config[stage_no]
             before == heap[stage_data]
             after == heap'[stage_data']
         IN  IF \E m \in 1..Len(stage.metrics), i \in 1..Len(before.rows) :
                    ~CallOnRow(stage.metrics[m].fn, before.rows[i], before.cols).ok
             THEN pc' = "raised"
             ELSE /\ pc' = "store"
                  /\ Len(after.rows) = Len(before.rows)
                  /\ after.cols = before.cols \o MetricKeys(stage.metrics)
                  /\ \A i \in 1..Len(before.rows) :
                        /\ \A c \in Range(before.cols) : after.rows[i][c] = before.rows[i][c]
                        /\ \A m \in 1..Len(stage.metrics) :
                              after.rows[i][stage.metrics[m].out]
                                  = CallOnRow(stage.metrics[m].fn, before.rows[i],
                                              before.cols).v]_vars

\* a call raised in a per-row stage whose second metric fails on the third of
\* three rows, after an earlier stage had added a column to each of its rows
C17_Witness ==
    /\ pc = "raised"
    /\ stage_no = 2
    /\ IsPerRowStage(pipeline_config[1])
    /\ Len(recorded) = 1
    /\ Len(recorded[1].rows) = 3
    /\ recorded[1].cols = <<"model", "len", "score", "is_high_score">>
    /\ pipeline_config[2].name = "scores"
    /\ Len(heap[stage_data].rows) = 3
    /\ CallOnRow(Fn("int_score"), heap[stage_data].rows[1], <<"score">>).ok
    /\ ~CallOnRow(Fn("int_score"), heap[stage_data].rows[3], <<"score">>).ok

\* the population variance (ddof = 0) of the non-null values xs: the mean of
\* the squared deviations from the mean
PopulationVariance(xs) ==
    LET n == Len(xs)
        mean == RDivInt(SumSeq(xs), n)
    IN  RDivInt(SumSeq([i \in 1..n |-> RMul(RSub(xs[i], mean), RSub(xs[i], mean))]), n)

\* C18: the 'std' and 'var' metrics of aggregate use ddof = 0 (squared
\* deviations divided by the group size), so that a group with exactly one
\* observation has std and var 0 rather than undefined.
C18_StdVarPopulationForm ==
    AggCalled /\ ~IsEmpty(call.data) /\ call.data.numeric # {} /\ ValidGroupBy
              /\ NoNameClash /\ out.ok =>
        \A i \in 1..Len(out.table.rows), k \in 1..Len(call.metrics) :
            LET xs == DropNull(Column(RowsOfKey(out.table.rows[i]), ClaimedValueColumn))
            IN  call.metrics[k].kind = "name" /\ xs # <<>> =>
                   /\ call.metrics[k].fn.f = "var" =>
                         out.table.rows[i][call.metrics[k].out] = PopulationVariance(xs)
                   /\ call.metrics[k].fn.f = "std" =>
                         out.table.rows[i][call.metrics[k].out] = Sqrt(PopulationVariance(xs))

\* a run_from_config call has been made
RunCalled == pc \in {"run_keys", "run_load", "run_empty", "run_metrics", "run_aggregate",
                     "run_write", "run_done"}

\* C19: run_from_config checks the keys input_csv, output_csv, group_by in that
\* order and, when one is absent, returns success False with the error
\* 'missing config key: <first absent key>', without attempting to load the
\* input and without writing any output.
C19_MissingKeyReported ==
    RunCalled /\ {"input_csv", "output_csv", "group_by"} \ DOMAIN cfg # {} =>
        /\ loads = <<>>
        /\ writes = <<>>
        /\ pc \in {"run_keys", "run_done"}
        /\ pc = "run_done" =>
              /\ ~ret.success
              /\ ret.error = "missing config key"
              /\ ret.key = IF "input_csv" \notin DOMAIN cfg THEN "input_csv"
                            ELSE IF "output_csv" \notin DOMAIN cfg THEN "output_csv"
                            ELSE "group_by"

\* a call whose configuration lacks output_csv and group_by has returned the
\* error naming output_csv
C19_Witness ==
    /\ pc = "run_done"
    /\ DOMAIN cfg = {"input_csv", "metrics"}
    /\ ret.error = "missing config key"
    /\ ret.key = "output_csv"
    /\ loads = <<>>

\* the grouping of the loaded table by the configured group_by cannot be done:
\* no column is named, or one that the table does not have
CannotGroup ==
    \/ cfg["group_by"].items = <<>>
    \/ \E i \in 1..Len(cfg["group_by"].items) :
          cfg["group_by"].items[i] \notin Range(files.table.cols)

\* C20: run_from_config reports its outcome as a result value. When it returns
\* success False for a missing key, an input load failure, an empty input, no
\* rating column and no metrics, or an error while aggregating,
\* write_dataframe has not been called; when it returns success True,
\* write_dataframe was called exactly once, artifacts is [output_csv] and rows
\* is the number of rows of the table written. (write_dataframe is never
\* called twice, and a result of success False after a call of it is the
\* report of that call's own failure.)
C20_OutcomeMatchesWrite ==
    /\ RunCalled => Len(writes) <= 1
    /\ RunCalled /\ pc # "run_done" => ret = NoResult /\ (writes = <<>>)
    /\ pc = "run_done" /\ ret.success =>
          /\ Len(writes) = 1
          /\ writes[1].path = cfg["output_csv"].items[1]
          /\ ret.artifacts = <<cfg["output_csv"].items[1]>>
          /\ ret.rows = Len(writes[1].table.rows)
    /\ pc = "run_done" /\ ~ret.success =>
          /\ ret.error \in {"missing config key", "failed to load input_csv",
                             "input data is empty",
                             "No rating columns found and no metrics specified",
                             "error during analytics"}
          /\ ret.error # "error during analytics" => writes = <<>>
          /\ ret.error = "error during analytics" /\ CannotGroup => writes = <<>>
          /\ writes # <<>> => files.write_raises

\* a call without metrics on a table of three rows in two groups has returned
\* success True with rows 2, the table written having the two rows
C20_Witness ==
    /\ pc = "run_done"
    /\ ret.success
    /\ "metrics" \notin DOMAIN cfg
    /\ Len(run_data.rows) = 3
    /\ ret.rows = 2
    /\ Len(writes) = 1
    /\ writes[1].table.cols = <<"model", "avg_judge_rating", "count">>
    /\ writes[1].table.rows[2]["count"] = Num(2)
    /\ writes[1].table.rows[2]["avg_judge_rating"] = Rat(7, 2)

\* the rating columns of the modelled input tables
RatingColumnsOf(t) == {c \in Range(t.cols) : c \in {"judge_rating", "Rating"}}

\* the rows of the input file that carry the key of row r of the table written
InputRowsOfKey(r) ==
    SelectSeq(files.table.rows,
              LAMBDA x : \A i \in 1..Len(cfg["group_by"].items) :
                            x[cfg["group_by"].items[i]] = r[cfg["group_by"].items[i]])

\* the mean of the values that are present
MeanOfPresent(xs) ==
    IF DropNull(xs) = <<>> THEN Null ELSE RDivInt(SumSeq(DropNull(xs)), Len(DropNull(xs)))

\* a run without metrics, on a non-empty input file that has a rating column
\* and every column of the group_by list, whose output can be written
DefaultMetricsRun ==
    /\ pc = "run_done"
    /\ {"input_csv", "output_csv", "group_by"} \subseteq DOMAIN cfg
    /\ "metrics" \notin DOMAIN cfg
    /\ ~files.load_raises /\ ~files.write_raises
    /\ files.table.rows # <<>>
    /\ RatingColumnsOf(files.table) # {}
    /\ cfg["group_by"].items # <<>>
    /\ Range(cfg["group_by"].items) \subseteq Range(files.table.cols)

GoodManifest(m) ==
    /\ m.ext = ".yaml"
    /\ m.content = "complete"
    /\ m.entry_point = <<"dummy_module", "ValidAddin">>

\* C22: discover_from_manifests registers every add-in of the directory whose
\* .yaml manifest is valid and whose entry point resolves to an
\* AnalyticsAddinBase subclass, and skips every other manifest without raising
\* to the caller or stopping the scan: the call returns, and the registry then
\* holds exactly the add-ins of the good manifests.
C22_BadManifestsSkipped ==
    pc \in {"discover_returned", "discover_raised"} =>
        /\ pc = "discover_returned"
        /\ DOMAIN registry =
              {manifest_dir[i].name : i \in {j \in 1..Len(manifest_dir) :
                                                GoodManifest(manifest_dir[j])}}
        /\ \A n \in DOMAIN registry : registry[n] \in AddinClasses

\* what load_results has to return for the fingerprint fp: the results and the
\* tags of its last save_results call, or FileNotFoundError when there is none
ExpectedLoad(fp) ==
    IF fp \in DOMAIN saved
    THEN Returned(PyDict(<< <<"results", saved[fp].results>>,
                            <<"tags", IF saved[fp].tags = PyNone THEN PyList(<<>>)
                                      ELSE saved[fp].tags>> >>))
    ELSE Raised("FileNotFoundError")

SavedWithTag(tag) ==
    {fp \in DOMAIN saved : saved[fp].tags # PyNone /\ tag \in Range(saved[fp].tags.items)}

\* C24: after any sequence of save_results calls on a tracker whose storage
\* directory started empty, list_experiments returns exactly the fingerprints
\* saved so far, each once, and filter_experiments(tag) returns exactly the
\* fingerprints whose most recently saved tags contain tag, each once: a
\* subset of list_experiments, empty for a tag never used.
C24_ListAndFilter ==
    pc = "tracker" =>
        /\ tracker_ret.op = "list" =>
              /\ Range(tracker_ret.r.v) = DOMAIN saved
              /\ Len(tracker_ret.r.v) = Cardinality(DOMAIN saved)
        /\ tracker_ret.op = "filter" =>
              /\ Range(tracker_ret.r.v) = SavedWithTag(tracker_ret.tag)
              /\ Len(tracker_ret.r.v) = Cardinality(SavedWithTag(tracker_ret.tag))
              /\ \A l \in Listings(storage) :
                    Range(tracker_ret.r.v) \subseteq Range(list_experiments(l))

\* with two fingerprints saved, one of them again with other tags, the filter
\* for a tag of the first save that the second save dropped has returned only
\* the other fingerprint
C24_Witness ==
    /\ pc = "tracker"
    /\ tracker_ret.op = "filter"
    /\ tracker_ret.tag = PyStr("high-quality")
    /\ Len(tracker_ret.r.v) = 1
    /\ Cardinality(DOMAIN saved) = 2
    /\ \E fp \in DOMAIN saved :
          /\ saved[fp].again
          /\ saved[fp].tags = PyList(<<PyStr("production")>>)

\* an AnalyticsAPI.run_from_config call is over, on a configuration that has
\* every required key, with an input that loads, is not empty and has the
\* group columns, and an output that can be written
ValidApiRun ==
    /\ pc \in {"api_returned", "api_raised"}
    /\ {"input_csv", "output_csv", "group_col"} \subseteq DOMAIN cfg
    /\ ~files.load_raises /\ ~files.write_raises
    /\ files.table.rows # <<>>
    /\ Range(cfg["group_col"].items) \subseteq Range(files.table.cols)

\* C25: the call convention aggregate(data, metrics_list, group_by=...) used
\* by AnalyticsAPI.run_from_config is an alias of the group-then-reduce
\* operation, so that AnalyticsAPI.run_from_config on a valid configuration
\* returns success True, with rows equal to the number of groups of the input.
C25_ApiRunSucceeds ==
    ValidApiRun =>
        /\ pc = "api_returned"
        /\ ret.success
        /\ ret.rows = Cardinality({KeyOf(files.table.rows[i], cfg["group_col"].items) :
                                      i \in {j \in 1..Len(files.table.rows) :
                                                ~HasNullKey(files.table.rows[j],
                                                            cfg["group_col"].items)}})

\* a run_from_config call is over that reached the aggregation, and the
\* aggregate call of line 103 raised
AggregateRaisedInRun ==
    /\ pc = "run_done"
    /\ run_metrics # <<>>
    /\ ~Aggregate(BuiltinFunctions, run_data, cfg["group_by"].items, run_metrics).ok

\* what the metric function fn gives on the rows of one group: the number of
\* rows for count, and for the mean of a column nothing when the table lacks
\* the column or the column holds strings (the call raises), else the mean of
\* the values that are present
ValueOnGroup(fn, rows) ==
    IF fn.f = "count_func" THEN Num(Len(rows))
    ELSE IF fn.col \notin files.table.numeric THEN Null
    ELSE MeanOfPresent(Column(rows, fn.col))

\* C26: when DataAggregator.aggregate raises inside run_from_config the run
\* does not fail: the fallback builds one row per group, holding for every
\* metric the value of its callable on the group's whole sub-table, null when
\* the callable raises, and the run writes that table and returns success
\* True; the result is success False only when the fallback cannot group
\* (before any write) or when the write itself fails.
C26_FallbackKeepsRunning ==
    AggregateRaisedInRun =>
        IF CannotGroup
        THEN ~ret.success /\ writes = <<>>
        ELSE /\ Len(writes) = 1
             /\ ret.success <=> ~files.write_raises
             /\ LET w == writes[1].table
                    G == cfg["group_by"].items
                IN  /\ \A j \in 1..Len(files.table.rows) :
                          ~HasNullKey(files.table.rows[j], G) =>
                             Cardinality({i \in 1..Len(w.rows) :
                                KeyOf(w.rows[i], G) = KeyOf(files.table.rows[j], G)}) = 1
                    /\ \A i \in 1..Len(w.rows) :
                          /\ InputRowsOfKey(w.rows[i]) # <<>>
                          /\ \A k \in 1..Len(run_metrics) :
                                w.rows[i][run_metrics[k].out] =
                                   ValueOnGroup(run_metrics[k].fn, InputRowsOfKey(w.rows[i]))

\* a run with the metrics avg_model and avg_judge_rating has returned success
\* True after writing, for the two groups, no value for avg_model (the mean of
\* strings raises) and the mean rating
C26_Witness ==
    /\ AggregateRaisedInRun
    /\ ret.success
    /\ MetricKeys(run_metrics) = <<"avg_model", "avg_judge_rating", "count">>
    /\ Len(writes) = 1
    /\ Len(writes[1].table.rows) = 2
    /\ writes[1].table.rows[2]["avg_model"] = Null
    /\ writes[1].table.rows[2]["avg_judge_rating"] = Rat(7, 2)
    /\ writes[1].table.rows[2]["count"] = Num(2)

\* stage k is the last stage so far that stored a result under its name
LastStoredOfName(k) ==
    \A j \in (k + 1)..Len(recorded) : pipeline_config[j].name # pipeline_config[k].name

\* C27: once a stage's result is recorded in the result mapping no later stage
\* changes it: no step of the pipeline modifies a table the mapping holds, and
\* at every later point, the return included, the mapping holds for stage i
\* the table computed when stage i finished (under the stage's name, as long
\* as no later stage has stored a result under the same name).
C27_RecordedNotChanged ==
    /\ [](heap # <<>> =>
            \A k \in 1..Len(recorded) :
                LastStoredOfName(k) =>
                    /\ pipeline_config[k].name \in DOMAIN results
                    /\ heap[results[pipeline_config[k].name]] = recorded[k])
    /\ [][\A n \in DOMAIN results : heap'[results[n]] = heap[results[n]]]_vars

\* a call has returned whose first stage was carried forward and whose second
\* stage, starting from a copy of the first stage's result, filtered rows or
\* added per-row metric columns: the mapping still holds the first result
C27_Witness ==
    /\ pc = "returned"
    /\ Len(recorded) >= 2
    /\ pipeline_config[1].output_to_next = "true"
    /\ pipeline_config[1].name # pipeline_config[2].name
    /\ pipeline_config[2].filter # "none" \/ IsPerRowStage(pipeline_config[2])
    /\ started[2] = recorded[1]
    /\ recorded[2] # recorded[1]
    /\ LastStoredOfName(1)
    /\ heap[results[pipeline_config[1].name]] = recorded[1]

\* the mapping after differs from the mapping before in one entry, set or added
OneEntrySet(before, after) ==
    \E n \in DOMAIN after :
        /\ DOMAIN after = DOMAIN before \cup {n}
        /\ \A k \in DOMAIN before \ {n} : after[k] = before[k]

\* C28: aggregation_functions is per-aggregator state that only
\* register_aggregation_function changes. A step that changes an aggregator's
\* mapping is a registration on that aggregator (not a step of an aggregate,
\* multi_level_pipeline or other call, which all move the caller on), it sets
\* one entry, and it leaves the mapping of the other aggregator as it was; and
\* a call on one aggregator that names p75 finds it exactly when p75 was
\* registered on that aggregator.
C28_RegistryPerInstance ==
    /\ [][/\ aggregation_functions' # aggregation_functions =>
               /\ pc' = pc /\ pc \in {"new", "two"}
               /\ OneEntrySet(aggregation_functions, aggregation_functions')
               /\ other_functions' = other_functions
          /\ other_functions' # other_functions =>
               /\ aggregation_functions' = aggregation_functions
               /\ \/ pc = "new" /\ pc' = "two" /\ other_functions' = BuiltinFunctions
                  \/ pc = "two" /\ pc' = "two" /\ OneEntrySet(other_functions, other_functions')
         ]_vars
    /\ [](pc \in {"two_returned", "two_raised"} /\ call.metrics[1].fn.f = "p75" =>
             (out.ok <=> "p75" \in DOMAIN (IF call.on = 1 THEN aggregation_functions
                                           ELSE other_functions)))

\* p75 was registered on the first aggregator only, and the aggregate call on
\* the other one that names p75 has raised for an unknown function
C28_Witness ==
    /\ pc = "two_raised"
    /\ call.on = 2
    /\ call.metrics[1].fn.f = "p75"
    /\ "p75" \in DOMAIN aggregation_functions
    /\ "p75" \notin DOMAIN other_functions
    /\ out.err = ErrUnknown

\* the value column of the table t: 'score' when t has a numeric column of
\* that name, else its first numeric column
ValueColumnOf(t) ==
    IF "score" \in t.numeric THEN "score"
    ELSE t.cols[CHOOSE i \in 1..Len(t.cols) :
                   /\ t.cols[i] \in t.numeric
                   /\ \A j \in 1..(i - 1) : t.cols[j] \notin t.numeric]

\* stage k has handed the table it started from to aggregate as it was, and
\* that table has rows, the group_by columns and a numeric column
AggregatesItsStart(k) ==
    /\ pipeline_config[k].filter = "none"
    /\ pipeline_config[k].transform = "none"
    /\ IsGroupedStage(pipeline_config[k])
    /\ Range(pipeline_config[k].group_by) \subseteq Range(started[k].cols)
    /\ started[k].rows # <<>>
    /\ started[k].numeric # {}

\* the rows of the table stage k started from that carry the key of row r
StartRowsOfKey(k, r) ==
    SelectSeq(started[k].rows,
              LAMBDA x : \A i \in 1..Len(pipeline_config[k].group_by) :
                            x[pipeline_config[k].group_by[i]] = r[pipeline_config[k].group_by[i]])

\* C29: within one aggregate call every reduction metric is computed over the
\* same single value column, chosen from the input table alone and never from
\* the metric's output name: each reduction of a completed aggregating stage
\* is the reduction of the value column of the table the stage started from,
\* so two output names mapped to the same function hold identical values, and
\* in a stage that follows an aggregating stage (where 'score' is no longer a
\* column) that column is the first numeric column of the previous output.
C29_OneValueColumn ==
    \A k \in 1..Len(recorded) :
        AggregatesItsStart(k) =>
            \A i \in 1..Len(recorded[k].rows), m \in 1..Len(pipeline_config[k].metrics) :
                LET metric == pipeline_config[k].metrics[m]
                IN  /\ metric.fn.f \in PandasNames =>
                          recorded[k].rows[i][metric.out]
                             = PandasAgg(metric.fn.f,
                                         Column(StartRowsOfKey(k, recorded[k].rows[i]),
                                                ValueColumnOf(started[k])))
                    /\ \A n \in 1..Len(pipeline_config[k].metrics) :
                          pipeline_config[k].metrics[n].fn = metric.fn =>
                              recorded[k].rows[i][pipeline_config[k].metrics[n].out]
                                 = recorded[k].rows[i][metric.out]

\* the stage experiment_summary has completed after the carried-forward stage
\* by_model: its table has no 'score', its first numeric column is avg_score,
\* and mean_score and high_score_rate hold the mean of avg_score, which
\* differs from the mean of the other numeric column, count
C29_Witness ==
    /\ Len(recorded) >= 2
    /\ pipeline_config[1].name = "by_model"
    /\ pipeline_config[2].name = "experiment_summary"
    /\ Len(recorded[2].rows) = 2
    /\ "score" \notin Range(started[2].cols)
    /\ ValueColumnOf(started[2]) = "avg_score"
    /\ recorded[2].rows[2]["mean_score"] = Num(3)
    /\ recorded[2].rows[2]["high_score_rate"] = Num(3)
    /\ recorded[2].rows[2]["top"] = Num(3)
    /\ started[2].rows[2]["count"] = Num(2)

\* stage k names group_by columns but no metrics
GroupByWithoutMetrics(stage) == stage.group_by # <<>> /\ stage.metrics = <<>>

\* C30: a pipeline stage that has group_by but no metrics (the key absent or
\* an empty mapping) performs no grouping at all: its metrics step changes no
\* table and raises nothing, though the group_by names a missing column, and
\* the recorded result is the filtered and transformed working table, with the
\* rows the filter kept and the columns of the starting table and of the
\* transform.
C30_GroupByWithoutMetrics ==
    /\ [][pc = "metrics" /\ GroupByWithoutMetrics(pipeline_config[stage_no]) =>
             /\ pc' = "store"
             /\ heap' = heap
             /\ stage_data' = stage_data]_vars
    /\ [](\A k \in 1..Len(recorded) :
             GroupByWithoutMetrics(pipeline_config[k]) =>
                /\ Len(recorded[k].rows) = Len(KeptRows(k))
                /\ recorded[k].cols =
                      IF /\ pipeline_config[k].transform = "assign_centered"
                         /\ "score_centered" \notin Range(started[k].cols)
                      THEN Append(started[k].cols, "score_centered") ELSE started[k].cols
                /\ \A i \in 1..Len(recorded[k].rows),
                      c \in Range(started[k].cols) \ {"score_centered"} :
                      recorded[k].rows[i][c] = KeptRows(k)[i][c])

\* the stage kept, whose group_by names a column the table lacks, has
\* completed on a table of which the filter dropped two rows, and the call
\* has returned
C30_Witness ==
    /\ pc = "returned"
    /\ Len(recorded) >= 1
    /\ pipeline_config[1].name = "kept"
    /\ "nonexistent_column" \notin Range(started[1].cols)
    /\ Len(started[1].rows) = 3
    /\ Len(recorded[1].rows) = 1
    /\ "score_centered" \in Range(recorded[1].cols)
    /\ heap[results["kept"]] = recorded[1]

=============================================================================
